---- MODULE Spec2Model ----
(***************************************************************************)
(* TSHD dredging discrete-event simulation: the engine (des_framework.py), *)
(* the segment allocator (segments.py), the vessel state machine (tshd.py) *)
(* and the campaign driver (base-app.py, run_simulation_streamlit).        *)
(*                                                                         *)
(* Units.  Python floats are modelled by integers: times in hundredths of *)
(* an hour (0.01 h, so the floors 0.1 / 0.01 / 0.05 are 10 / 1 / 5),       *)
(* volumes in m3, distances in nautical miles, speeds in knots.  Every    *)
(* configuration used below is chosen so that the divisions of the code    *)
(* are exact in these units.                                               *)
(***************************************************************************)
EXTENDS Integers, Sequences, FiniteSets, TLC

VARIABLES
    clock,            \* Simulation.clock
    event_queue,      \* Simulation.event_queue: the heapq array (0-based in the code, 1-based here)
    entities,         \* Simulation.entities: entity_id -> index of the vessel object in dredgers
    statistics,       \* Simulation.statistics
    running,          \* Simulation.running
    segment_manager,  \* sim.segment_manager (attached = FALSE: the attribute is absent)
    dredgers,         \* the TSHD objects, in creation order
    rng,              \* the global numpy random source: standard-normal draws made so far, next position
    call,             \* the call of Simulation.run in progress: pc, end_time and what it saw;
                      \* last_time, the time of the last event dispatched, is kept across calls
    driver,           \* run_simulation_streamlit's locals and position
    alloc,            \* the allocator test harness: initial volumes, calls made, last call
    fork              \* the resumability harness: saved engine, the two legs, their final states

vars == <<clock, event_queue, entities, statistics, running, segment_manager,
          dredgers, rng, call, driver, alloc, fork>>

-----------------------------------------------------------------------------
(* Python's None, for optional numbers (end_time, dict.get misses, alloc).  *)
None == -1

(* Bounds of the model.                                                     *)
MaxEvents == 20
MaxAllocCalls == 4
MaxRounds == 4

(* Program constants, in model units.                                       *)
DredgeFloor == 10
MoveFloor == 1
DumpFloor == 5
MinStep == 25
DefaultStep == 100
MaxSimulationTime == 876000

\* mutant: the floor is dropped, the sample is returned as drawn
Max_unclamped(a, b) == b

Max(a, b) == IF a >= b THEN a ELSE b
Min(a, b) == IF a <= b THEN a ELSE b

RECURSIVE SeqSum(_)
SeqSum(s) == IF s = <<>> THEN 0 ELSE Head(s) + SeqSum(Tail(s))

-----------------------------------------------------------------------------
(*                         segments.py: SegmentManager                      *)

\* __init__: negative volumes are stored as 0.0 (max(0.0, float(v))).
SegmentManagerNew(segment_volumes_m3, segment_length_nm) ==
    [attached |-> TRUE,
     segment_length_nm |-> segment_length_nm,
     remaining_m3 |-> [i \in 1..Len(segment_volumes_m3) |-> Max(0, segment_volumes_m3[i])]]

NoSegmentManager == [attached |-> FALSE, segment_length_nm |-> 1, remaining_m3 |-> <<>>]

total_remaining(mgr) == SeqSum(mgr.remaining_m3)

\* mutant: restarts the scan after the first segment, skipping it
next_segment_with_work_skipfirst(mgr) ==
    LET work == {i \in 2..Len(mgr.remaining_m3) : mgr.remaining_m3[i] > 0}
    IN  IF work = {} THEN None ELSE CHOOSE i \in work : \A j \in work : i <= j

\* mutant: only the first segment is looked at
next_segment_with_work_firstonly(mgr) ==
    IF Len(mgr.remaining_m3) >= 1 /\ mgr.remaining_m3[1] > 0 THEN 1 ELSE None

\* the first index (1-based) whose remaining volume is > 0, else None
next_segment_with_work(mgr) ==
    LET work == {i \in 1..Len(mgr.remaining_m3) : mgr.remaining_m3[i] > 0}
    IN  IF work = {} THEN None ELSE CHOOSE i \in work : \A j \in work : i <= j

NoAllocation == [segment_index |-> None, volume_m3 |-> None, distance_to_da_nm |-> None]

\* mutant: writes back the remaining volume of the segment without subtracting the take
allocate_nodeduct(mgr, requested_m3) ==
    IF requested_m3 <= 0 THEN [mgr |-> mgr, res |-> NoAllocation]
    ELSE LET seg_idx == next_segment_with_work(mgr) IN
         IF seg_idx = None THEN [mgr |-> mgr, res |-> NoAllocation]
         ELSE LET remaining == mgr.remaining_m3[seg_idx]
                  take == Min(requested_m3, remaining)
              IN  [mgr |-> mgr,
                   res |-> [segment_index |-> seg_idx, volume_m3 |-> take,
                            distance_to_da_nm |-> (seg_idx - 1) * mgr.segment_length_nm]]

\* mutant: the segment drawn from is emptied, whatever was taken from it
allocate_lossy(mgr, requested_m3) ==
    LET a == allocate_nodeduct(mgr, requested_m3)
    IN  IF a.res = NoAllocation THEN a
        ELSE [a EXCEPT !.mgr.remaining_m3[a.res.segment_index] = 0]

\* allocate: the manager after the call and the SegmentAllocation returned (or None)
allocate(mgr, requested_m3) ==
    IF requested_m3 <= 0 THEN [mgr |-> mgr, res |-> NoAllocation]
    ELSE LET seg_idx == next_segment_with_work(mgr) IN
         IF seg_idx = None THEN [mgr |-> mgr, res |-> NoAllocation]
         ELSE LET remaining == mgr.remaining_m3[seg_idx]
                  take == Min(requested_m3, remaining)
              IN  [mgr |-> [mgr EXCEPT !.remaining_m3[seg_idx] = remaining - take],
                   res |-> [segment_index |-> seg_idx, volume_m3 |-> take,
                            distance_to_da_nm |-> (seg_idx - 1) * mgr.segment_length_nm]]

-----------------------------------------------------------------------------
(*                 des_framework.py: Event and the heapq timeline           *)

EventTypes == {"dredging_start", "dredging_complete", "move_to_da_start",
               "move_to_da_complete", "dumping_start", "dumping_complete",
               "move_back_start", "move_back_complete"}

\* Event.data: a key that is absent from the dict is None here
NoData == [actual_dredging_time |-> None, actual_travel_time |-> None,
           actual_dumping_time |-> None, allocated_volume_m3 |-> None,
           distance_to_da_nm |-> None, segment_index |-> None]

Event(time, event_type, entity_id, data) ==
    [time |-> time, event_type |-> event_type, entity_id |-> entity_id, data |-> data]

\* mutant: the value carried by the event is ignored
Get_default(value, default) == default

\* dict.get(key, default)
Get(value, default) == IF value = None THEN default ELSE value

\* Event.__lt__: events compare by time alone
Lt(a, b) == a.time < b.time

\* heapq._siftdown(heap, startpos, pos): the loop, newitem carried along.
\* Positions are the code's 0-based ones; heap[pos] is h[pos + 1].
RECURSIVE siftdown_loop(_, _, _, _)
siftdown_loop(h, startpos, pos, newitem) ==
    IF pos > startpos
    THEN LET parentpos == (pos - 1) \div 2
             parent == h[parentpos + 1]
         IN  IF Lt(newitem, parent)
             THEN siftdown_loop([h EXCEPT ![pos + 1] = parent], startpos, parentpos, newitem)
             ELSE [h EXCEPT ![pos + 1] = newitem]
    ELSE [h EXCEPT ![pos + 1] = newitem]

siftdown(h, startpos, pos) == siftdown_loop(h, startpos, pos, h[pos + 1])

\* heapq._siftup(heap, pos): bubble the smaller child up to a leaf, then sift down
RECURSIVE siftup_loop(_, _, _, _)
siftup_loop(h, pos, newitem, endpos) ==
    LET childpos == 2 * pos + 1 IN
    IF childpos < endpos
    THEN LET rightpos == childpos + 1
             c == IF rightpos < endpos /\ ~Lt(h[childpos + 1], h[rightpos + 1])
                  THEN rightpos ELSE childpos
         IN  siftup_loop([h EXCEPT ![pos + 1] = h[c + 1]], c, newitem, endpos)
    ELSE [heap |-> [h EXCEPT ![pos + 1] = newitem], pos |-> pos]

siftup(h, pos) ==
    LET r == siftup_loop(h, pos, h[pos + 1], Len(h))
    IN  siftdown(r.heap, pos, r.pos)

\* heapq.heappush, as schedule_event calls it
heappush(h, item) == siftdown(Append(h, item), 0, Len(h))

\* heapq.heappop on a non-empty heap, as get_next_event calls it
heappop(h) ==
    LET lastelt == h[Len(h)]
        rest == SubSeq(h, 1, Len(h) - 1)
    IN  IF rest # <<>>
        THEN [item |-> rest[1], heap |-> siftup([rest EXCEPT ![1] = lastelt], 0)]
        ELSE [item |-> lastelt, heap |-> rest]

\* Simulation.schedule_event
schedule_event(queue, event) == heappush(queue, event)

\* Simulation.__init__: the statistics dict
NewStatistics == [total_dredging_time |-> 0, total_moving_time |-> 0,
                  total_dumping_time |-> 0, dredging_cycles |-> 0,
                  events_processed |-> 0]

-----------------------------------------------------------------------------
(*                          tshd.py: TSHDConfig, TSHD                       *)

\* TSHD.__init__
NewTSHD(entity_id, config) ==
    [entity_id |-> entity_id, config |-> config, state |-> "idle",
     hopper_level |-> 0, total_dredged |-> 0, cycle_count |-> 0,
     event_log |-> <<>>, state_history |-> <<>>, current_segment_index |-> None]

\* an event_log entry; the keys an entry does not have are "" or None.
\* arg is the number formatted into the message text (hopper level, cycle number).
LogEvent(time, event, arg, state) ==
    [time |-> time, event |-> event, arg |-> arg, task |-> "", duration_h |-> None,
     volume_m3 |-> None, distance_nm |-> None, segment |-> None, state |-> state]

LogTask(time, task, duration_h, volume_m3, distance_nm, segment, state) ==
    [time |-> time, event |-> "", arg |-> None, task |-> task, duration_h |-> duration_h,
     volume_m3 |-> volume_m3, distance_nm |-> distance_nm, segment |-> segment,
     state |-> state]

History(time, state) == [time |-> time, state |-> state]

\* np.random.normal(mean, stdev) for the standard-normal draw z: mean + stdev * z,
\* with stdev = mean * (pct / 100.0)
Normal(mean, stdev_pct, z) == mean + ((mean * stdev_pct) \div 100) * z

\* distance / speed, hours to model units
TravelTime(distance_nm, speed) == (distance_nm * 100) \div speed

-----------------------------------------------------------------------------
(* The handlers of TSHD.  Each takes the vessel object v, the event e, the  *)
(* engine as the handler sees it, w = [clock, queue, stats, mgr], and the   *)
(* standard-normal draw z it would get from the random source; it returns   *)
(* the vessel and engine after the handler and whether it drew.             *)

Out(v, w, drew) == [v |-> v, w |-> w, drew |-> drew]

\* mutant: the exhausted vessel keeps the state it entered the handler's first line with
exhausted_state_dredging == "dredging"

\* tshd.py:121 self.state = TSHDState.IDLE
exhausted_state == "idle"

\* mutant: without an allocator half a hopper is dredged
full_load_half(cfg) == cfg.hopper_capacity \div 2

\* tshd.py:112 allocated_volume_m3 = self.config.hopper_capacity
full_load(cfg) == cfg.hopper_capacity

\* _start_dredging
start_dredging(v, e, w, z) ==
    LET cfg == v.config
        v1 == [v EXCEPT !.state = "dredging",
                        !.event_log = Append(@, LogEvent(w.clock, "Starting dredging", None, "dredging")),
                        !.state_history = Append(@, History(w.clock, "dredging"))]
        a == IF w.mgr.attached THEN allocate(w.mgr, cfg.hopper_capacity)
             ELSE [mgr |-> w.mgr, res |-> NoAllocation]
    IN  IF w.mgr.attached /\ (a.res = NoAllocation \/ a.res.volume_m3 <= 0)
        THEN \* no work left: idle, nothing scheduled
             Out([v1 EXCEPT !.state = exhausted_state,
                            !.event_log = Append(@, LogEvent(w.clock,
                                  "No segment work remaining (idle)", None, exhausted_state))],
                 [w EXCEPT !.mgr = a.mgr], FALSE)
        ELSE LET seg_idx == IF w.mgr.attached THEN a.res.segment_index ELSE None
                 allocated_volume_m3 == IF w.mgr.attached THEN a.res.volume_m3
                                        ELSE full_load(cfg)
                 distance_to_da_nm == IF w.mgr.attached THEN a.res.distance_to_da_nm
                                      ELSE cfg.distance_to_da
                 mean_time == (cfg.dredging_time * allocated_volume_m3) \div cfg.hopper_capacity
                 actual_dredging_time == Max(DredgeFloor, Normal(mean_time, cfg.dredging_stdev_pct, z))
                 v2 == [v1 EXCEPT
                          !.current_segment_index = IF w.mgr.attached THEN seg_idx ELSE @,
                          !.event_log = Append(@, LogTask(w.clock, "dredging", actual_dredging_time,
                                                  allocated_volume_m3, None, seg_idx, "dredging"))]
             IN  Out(v2,
                     [w EXCEPT !.mgr = a.mgr,
                               !.queue = schedule_event(@, Event(w.clock + actual_dredging_time,
                                   "dredging_complete", v.entity_id,
                                   [NoData EXCEPT !.actual_dredging_time = actual_dredging_time,
                                                  !.allocated_volume_m3 = allocated_volume_m3,
                                                  !.distance_to_da_nm = distance_to_da_nm,
                                                  !.segment_index = seg_idx]))],
                     TRUE)

\* mutant: the load replaces the running total instead of adding to it
add_dredged_overwrite(total_dredged, loaded_m3) == loaded_m3

\* tshd.py:189 self.total_dredged += loaded_m3
add_dredged(total_dredged, loaded_m3) == total_dredged + loaded_m3

\* mutant: the hopper is always taken to be full, whatever was allocated
loaded_volume_full(e, cfg) == cfg.hopper_capacity

\* tshd.py:187 loaded_m3 = float(event.data.get("allocated_volume_m3", hopper_capacity))
loaded_volume(e, cfg) == Get(e.data.allocated_volume_m3, cfg.hopper_capacity)

\* _complete_dredging
complete_dredging(v, e, w, z) ==
    LET cfg == v.config
        loaded_m3 == loaded_volume(e, cfg)
        actual_dredging_time == Get(e.data.actual_dredging_time, cfg.dredging_time)
        distance_to_da_nm == Get(e.data.distance_to_da_nm, cfg.distance_to_da)
        mean_travel_time == TravelTime(distance_to_da_nm, cfg.speed_to_da)
        travel_time == Max(MoveFloor, Normal(mean_travel_time, cfg.moving_stdev_pct, z))
        v1 == [v EXCEPT !.hopper_level = loaded_m3,
                        !.total_dredged = add_dredged(@, loaded_m3),
                        !.event_log = Append(Append(@,
                              LogEvent(w.clock, "Dredging complete", loaded_m3, v.state)),
                              LogTask(w.clock, "moving_to_da", travel_time, None,
                                      distance_to_da_nm, e.data.segment_index, "moving_to_da")),
                        !.state = "moving_to_da"]
        q1 == schedule_event(w.queue, Event(w.clock, "move_to_da_start", v.entity_id, NoData))
        q2 == schedule_event(q1, Event(w.clock + travel_time, "move_to_da_complete", v.entity_id,
                  [NoData EXCEPT !.actual_travel_time = travel_time,
                                 !.distance_to_da_nm = distance_to_da_nm]))
    IN  Out(v1,
            [w EXCEPT !.stats.total_dredging_time = @ + actual_dredging_time, !.queue = q2],
            TRUE)

\* _start_move_to_da
start_move_to_da(v, e, w, z) ==
    Out([v EXCEPT !.state = "moving_to_da",
                  !.event_log = Append(@, LogEvent(w.clock, "Moving to dumping area", None, "moving_to_da")),
                  !.state_history = Append(@, History(w.clock, "moving_to_da"))],
        w, FALSE)

\* _complete_move_to_da
complete_move_to_da(v, e, w, z) ==
    LET cfg == v.config
        distance_to_da_nm == Get(e.data.distance_to_da_nm, cfg.distance_to_da)
        travel_time == Get(e.data.actual_travel_time, TravelTime(distance_to_da_nm, cfg.speed_to_da))
        mean_time == cfg.dumping_time
        actual_dumping_time == Max(DumpFloor, Normal(mean_time, cfg.dumping_stdev_pct, z))
        v1 == [v EXCEPT !.event_log = Append(Append(@,
                              LogEvent(w.clock, "Arrived at dumping area", None, v.state)),
                              LogTask(w.clock, "dumping", actual_dumping_time, None, None, None, "dumping")),
                        !.state = "dumping",
                        !.state_history = Append(@, History(w.clock, "dumping"))]
        q1 == schedule_event(w.queue, Event(w.clock, "dumping_start", v.entity_id, NoData))
        \* the data of DUMPING_COMPLETE carries the dumping time and nothing else
        q2 == schedule_event(q1, Event(w.clock + actual_dumping_time, "dumping_complete", v.entity_id,
                  [NoData EXCEPT !.actual_dumping_time = actual_dumping_time]))
    IN  Out(v1,
            [w EXCEPT !.stats.total_moving_time = @ + travel_time, !.queue = q2],
            TRUE)

\* mutant: the DumpStart marker is handled by the TransitOutStart handler
start_dumping_as_move(v, e, w, z) == start_move_to_da(v, e, w, z)

\* _start_dumping
start_dumping(v, e, w, z) ==
    Out([v EXCEPT !.state = "dumping",
                  !.event_log = Append(@, LogEvent(w.clock, "Starting dumping", None, "dumping"))],
        w, FALSE)

\* mutant: the engine's cycle counter is not incremented
count_cycle_skip(dredging_cycles) == dredging_cycles

\* tshd.py:345 sim.statistics['dredging_cycles'] += 1
count_cycle(dredging_cycles) == dredging_cycles + 1

\* _complete_dumping
complete_dumping(v, e, w, z) ==
    LET cfg == v.config
        actual_dumping_time == Get(e.data.actual_dumping_time, cfg.dumping_time)
        distance_to_da_nm == Get(e.data.distance_to_da_nm, cfg.distance_back)
        mean_travel_time == TravelTime(distance_to_da_nm, cfg.speed_back)
        travel_time == Max(MoveFloor, Normal(mean_travel_time, cfg.moving_stdev_pct, z))
        v1 == [v EXCEPT !.hopper_level = 0,
                        !.cycle_count = @ + 1,
                        !.event_log = Append(Append(@,
                              LogEvent(w.clock, "Dumping complete", v.cycle_count + 1, v.state)),
                              LogTask(w.clock, "moving_back", travel_time, None,
                                      distance_to_da_nm, None, "moving_back")),
                        !.state = "moving_back",
                        !.state_history = Append(@, History(w.clock, "moving_back"))]
        q1 == schedule_event(w.queue, Event(w.clock, "move_back_start", v.entity_id, NoData))
        q2 == schedule_event(q1, Event(w.clock + travel_time, "move_back_complete", v.entity_id,
                  [NoData EXCEPT !.actual_travel_time = travel_time,
                                 !.distance_to_da_nm = distance_to_da_nm]))
    IN  Out(v1,
            [w EXCEPT !.stats.total_dumping_time = @ + actual_dumping_time,
                      !.stats.dredging_cycles = count_cycle(@),
                      !.queue = q2],
            TRUE)

\* mutant: the TransitBackStart marker is handled by the DumpStart handler
start_move_back_as_dumping(v, e, w, z) == start_dumping(v, e, w, z)

\* _start_move_back
start_move_back(v, e, w, z) ==
    Out([v EXCEPT !.state = "moving_back",
                  !.event_log = Append(@, LogEvent(w.clock, "Moving back to dredging area", None, "moving_back"))],
        w, FALSE)

\* _complete_move_back
complete_move_back(v, e, w, z) ==
    LET cfg == v.config
        travel_time == Get(e.data.actual_travel_time, TravelTime(cfg.distance_back, cfg.speed_back))
    IN  Out([v EXCEPT !.event_log = Append(@, LogEvent(w.clock, "Arrived back at dredging area", None, v.state)),
                      !.state = "dredging",
                      !.state_history = Append(@, History(w.clock, "dredging"))],
            [w EXCEPT !.stats.total_moving_time = @ + travel_time,
                      !.queue = schedule_event(@, Event(w.clock, "dredging_start", v.entity_id, NoData))],
            FALSE)

\* TSHD.handle_event: dispatch on the event type
handle_event(v, e, w, z) ==
    CASE e.event_type = "dredging_start"      -> start_dredging(v, e, w, z)
      [] e.event_type = "dredging_complete"   -> complete_dredging(v, e, w, z)
      [] e.event_type = "move_to_da_start"    -> start_move_to_da(v, e, w, z)
      [] e.event_type = "move_to_da_complete" -> complete_move_to_da(v, e, w, z)
      [] e.event_type = "dumping_start"       -> start_dumping(v, e, w, z)
      [] e.event_type = "dumping_complete"    -> complete_dumping(v, e, w, z)
      [] e.event_type = "move_back_start"     -> start_move_back(v, e, w, z)
      [] e.event_type = "move_back_complete"  -> complete_move_back(v, e, w, z)
      [] OTHER                                -> Out(v, w, FALSE)

\* mutant: the first DredgeStart is scheduled before time 0
start_work_past(v, queue) == schedule_event(queue, Event(-5, "dredging_start", v.entity_id, NoData))

\* TSHD.start_work: a DREDGING_START at time 0.0, whatever the clock
start_work(v, queue) == schedule_event(queue, Event(0, "dredging_start", v.entity_id, NoData))

-----------------------------------------------------------------------------
(*                    Inputs: configurations and scenarios                  *)

\* Scenario A of the documentation, the defaults of run_simulation: no spread
CfgStd == [dredging_time |-> 200, dredging_stdev_pct |-> 0, speed_to_da |-> 10,
           distance_to_da |-> 5, moving_stdev_pct |-> 0, dumping_time |-> 50,
           dumping_stdev_pct |-> 0, speed_back |-> 10, distance_back |-> 5,
           hopper_capacity |-> 5000]

\* the same vessel with a spread on every phase
CfgVar == [CfgStd EXCEPT !.dredging_stdev_pct = 25, !.moving_stdev_pct = 20,
                         !.dumping_stdev_pct = 10]

\* the standard-normal draws the random source may produce
ZSet == {-4, 0}

\* the bounds run is called with (None: no bound)
Horizons == {None, 0, 100, 350}

Vessel(id, cfg) == [id |-> id, cfg |-> cfg]

\* fleets and channels the engine is exercised with
Scenarios ==
    { [fleet |-> <<Vessel("A", CfgStd)>>, mgr |-> NoSegmentManager],
      [fleet |-> <<Vessel("A", CfgVar)>>, mgr |-> NoSegmentManager],
      [fleet |-> <<Vessel("A", CfgStd), Vessel("B", CfgStd)>>,
       mgr |-> SegmentManagerNew(<<1000, 0, 500>>, 2)],
      [fleet |-> <<Vessel("A", CfgVar), Vessel("B", CfgStd)>>,
       mgr |-> SegmentManagerNew(<<5000, -10, 7500>>, 2)] }

-----------------------------------------------------------------------------
(*                       des_framework.py: Simulation.run                   *)

\* Python truthiness of end_time: None and 0.0 are both false
Truthy(end_time) == end_time # None /\ end_time # 0

IdleCall == [pc |-> "idle", end_time |-> None, had_later |-> FALSE, clock0 |-> 0,
             dispatched |-> 0, last_time |-> None, late |-> FALSE, how |-> "",
             dropped |-> None]

NoDriver == [mode |-> "none", pc |-> "none", fleet |-> <<>>, target_volume |-> 0,
             cycle_times |-> <<>>, step_h |-> 0, current_end_time |-> 0, rounds |-> 1,
             scheduled |-> 0]

NoAlloc == [volumes |-> <<>>, length |-> 1, raised |-> FALSE, initial |-> <<>>, log |-> <<>>]

NoFork == [leg |-> 0, stage |-> "", h1 |-> None, h2 |-> None, saved |-> <<>>,
           final1 |-> <<>>, final2 |-> <<>>]

\* Simulation(): the engine after construction
NewSimulation ==
    /\ clock = 0
    /\ event_queue = <<>>
    /\ entities = <<>>
    /\ statistics = NewStatistics
    /\ running = FALSE
    /\ call = IdleCall

\* mutant: the source is not seeded, a replay draws afresh
DrawSet_unseeded == ZSet

\* the draws the next sample can see: the recorded one when the source is replayed
DrawSet == IF rng.pos < Len(rng.tape) THEN {rng.tape[rng.pos + 1]} ELSE ZSet

Drawn(z) == [tape |-> IF rng.pos < Len(rng.tape) THEN rng.tape ELSE Append(rng.tape, z),
             pos |-> rng.pos + 1]

\* run, line 64: self.running = True
RunCall(end_time) ==
    /\ call.pc = "idle"
    /\ running' = TRUE
    /\ call' = [pc |-> "loop", end_time |-> end_time,
                had_later |-> \E k \in 1..Len(event_queue) : event_queue[k].time > end_time,
                clock0 |-> clock, dispatched |-> 0, last_time |-> call.last_time,
                late |-> FALSE, how |-> "", dropped |-> None]
    /\ UNCHANGED <<clock, event_queue, entities, statistics, segment_manager, dredgers, rng>>

\* mutant: an event at the bound itself is beyond it
beyond_inclusive(end_time, event) == Truthy(end_time) /\ event.time >= end_time

\* run, line 69: if end_time and event.time > end_time
beyond(end_time, event) == Truthy(end_time) /\ event.time > end_time

\* mutant: the clock is left where it was when an event is dispatched
dispatch_clock_keep(now, event) == now

\* run, line 74: self.clock = event.time
dispatch_clock(now, event) == event.time

\* mutant: the clock is left at the last dispatched event when the bound is reached
break_clock_keep(now, end_time) == now

\* run, line 71: self.clock = end_time
break_clock(now, end_time) == end_time

\* run, lines 66-67 and 74-82: one iteration that dispatches the popped event
RunDispatch ==
    /\ call.pc = "loop"
    /\ event_queue # <<>> /\ running
    /\ statistics.events_processed < MaxEvents
    /\ LET p == heappop(event_queue)
           event == p.item
           stats1 == [statistics EXCEPT !.events_processed = @ + 1]
       IN  /\ ~beyond(call.end_time, event)
           /\ call' = [call EXCEPT !.dispatched = @ + 1, !.last_time = event.time,
                                   !.late = @ \/ (call.end_time # None /\ event.time > call.end_time),
                                   !.dropped = IF event.entity_id \in DOMAIN entities
                                               THEN @ ELSE event.time]
           /\ UNCHANGED <<entities, running>>
           /\ IF event.entity_id \in DOMAIN entities
              THEN \E z \in DrawSet :
                     LET i == entities[event.entity_id]
                         o == handle_event(dredgers[i], event,
                                  [clock |-> dispatch_clock(clock, event), queue |-> p.heap,
                                   stats |-> stats1,
                                   mgr |-> segment_manager], z)
                     IN  /\ clock' = o.w.clock
                         /\ event_queue' = o.w.queue
                         /\ statistics' = o.w.stats
                         /\ segment_manager' = o.w.mgr
                         /\ dredgers' = [dredgers EXCEPT ![i] = o.v]
                         /\ rng' = IF o.drew THEN Drawn(z) ELSE rng
              ELSE \* unknown entity: a warning is printed, the event is dropped
                   /\ clock' = dispatch_clock(clock, event)
                   /\ event_queue' = p.heap
                   /\ statistics' = stats1
                   /\ UNCHANGED <<segment_manager, dredgers, rng>>

\* run, lines 69-72 and 84: the popped event is beyond the bound; put it back, break
RunBreak ==
    /\ call.pc = "loop"
    /\ event_queue # <<>> /\ running
    /\ LET p == heappop(event_queue)
       IN  /\ beyond(call.end_time, p.item)
           /\ event_queue' = heappush(p.heap, p.item)
           /\ clock' = break_clock(clock, call.end_time)
    /\ running' = FALSE
    /\ call' = [call EXCEPT !.pc = "idle", !.how = "break"]
    /\ UNCHANGED <<entities, statistics, segment_manager, dredgers, rng>>

\* run, lines 66 and 84: the timeline is empty; the loop ends
RunExit ==
    /\ call.pc = "loop"
    /\ ~(event_queue # <<>> /\ running)
    /\ running' = FALSE
    /\ call' = [call EXCEPT !.pc = "idle", !.how = "empty"]
    /\ UNCHANGED <<clock, event_queue, entities, statistics, segment_manager, dredgers, rng>>

-----------------------------------------------------------------------------
(* simulation_runner.py, run_simulation: vessels are created, registered    *)
(* and started one by one, then run is called.  The runner here may call    *)
(* run again, with any bound, once a call has returned.                     *)

InitRunner ==
    /\ NewSimulation
    /\ \E sc \in Scenarios :
         /\ segment_manager = sc.mgr
         /\ driver = [NoDriver EXCEPT !.mode = "runner", !.pc = "setup", !.fleet = sc.fleet]
    /\ dredgers = <<>>
    /\ rng = [tape |-> <<>>, pos |-> 0]
    /\ alloc = NoAlloc
    /\ fork = NoFork

\* run_simulation, lines 17-33: one iteration of the creation loop
AddDredger ==
    /\ driver.mode \in {"runner", "resume", "caller", "exhaust", "ties"} /\ driver.pc = "setup"
    /\ call.pc = "idle"
    /\ Len(dredgers) < Len(driver.fleet)
    /\ LET k == Len(dredgers) + 1
           dredger == NewTSHD(driver.fleet[k].id, driver.fleet[k].cfg)
       IN  /\ dredgers' = Append(dredgers, dredger)
           /\ entities' = (dredger.entity_id :> k) @@ entities
           /\ event_queue' = start_work(dredger, event_queue)
           /\ driver' = IF k = Len(driver.fleet) THEN [driver EXCEPT !.pc = "ready"] ELSE driver
    /\ UNCHANGED <<clock, statistics, running, segment_manager, rng, call, alloc, fork>>

\* run_simulation, line 44: sim.run(end_time=...)
RunnerRun ==
    /\ driver.mode = "runner" /\ driver.pc = "ready"
    /\ \E end_time \in Horizons : RunCall(end_time)
    /\ UNCHANGED <<driver, alloc, fork>>

EngineStep ==
    /\ \/ RunDispatch
       \/ RunBreak
       \/ RunExit
    /\ UNCHANGED <<driver, alloc, fork>>

Next == AddDredger \/ RunnerRun \/ EngineStep

Spec == InitRunner /\ [][Next]_vars

-----------------------------------------------------------------------------
(*                      Properties of the engine and vessels                *)

Pending(entity_id) ==
    {k \in 1..Len(event_queue) : event_queue[k].entity_id = entity_id}

\* C1: across any sequence of calls the clock never decreases (and after a run it is
\* the time of the last dispatched event or the horizon).  Stated as: no step of the
\* engine lowers the clock.
C1_ClockNeverDecreases == [][clock' >= clock]_vars

\* C2: a call run(until) with a numeric bound (0 included), made while the timeline
\* holds an event later than until, dispatches no event later than until, and returns
\* by putting the first such event back, with the clock exactly at until and every
\* event left in the timeline later than until.
C2_RunStopsAtBound ==
    (call.end_time # None /\ call.had_later) =>
        /\ ~call.late
        /\ (call.pc = "idle" =>
              /\ call.how = "break"
              /\ clock = call.end_time
              /\ event_queue # <<>>
              /\ \A k \in 1..Len(event_queue) : event_queue[k].time > call.end_time)

\* the vessel has handled a DredgeStart for which the allocator returned nothing
Exhausted(v) ==
    \E k \in 1..Len(v.event_log) : v.event_log[k].event = "No segment work remaining (idle)"

\* C8: once a vessel has handled a DredgeStart for which the attached allocator
\* returned no allocation, it is Idle, no event of it is pending, and no later step
\* changes the vessel (state, hopper_level, total_dredged, cycle_count included),
\* while the engine goes on with the other vessels.
C8_ExhaustedVesselHalts ==
    /\ [](\A i \in 1..Len(dredgers) :
             Exhausted(dredgers[i]) =>
                /\ segment_manager.attached
                /\ dredgers[i].state = "idle"
                /\ Pending(dredgers[i].entity_id) = {})
    /\ [][\A i \in 1..Len(dredgers) :
             Exhausted(dredgers[i]) => dredgers'[i] = dredgers[i]]_vars

\* C8 witness: a vessel has halted on exhaustion and another vessel, not halted, has
\* handled an event at a later time
C8_Witness ==
    \E i, j \in 1..Len(dredgers) :
        /\ Exhausted(dredgers[i])
        /\ ~Exhausted(dredgers[j])
        /\ dredgers[j].cycle_count >= 1
        /\ dredgers[j].event_log[Len(dredgers[j].event_log)].time
             > dredgers[i].event_log[Len(dredgers[i].event_log)].time

\* the volumes of the 'dredging' duration samples of an event_log
RECURSIVE DredgingSampleVolume(_)
DredgingSampleVolume(log) ==
    IF log = <<>> THEN 0
    ELSE (IF Head(log).task = "dredging" THEN Head(log).volume_m3 ELSE 0)
         + DredgingSampleVolume(Tail(log))

\* the allocated volumes carried by the pending DredgeDone events of an entity
RECURSIVE PendingDredgeVolume(_, _)
PendingDredgeVolume(queue, entity_id) ==
    IF queue = <<>> THEN 0
    ELSE (IF Head(queue).entity_id = entity_id /\ Head(queue).event_type = "dredging_complete"
          THEN Head(queue).data.allocated_volume_m3 ELSE 0)
         + PendingDredgeVolume(Tail(queue), entity_id)

\* C9 as stated: at every point of a run each vessel's total_dredged equals the sum of
\* the volumes of all 'dredging' samples recorded so far in its event_log.
C9_TotalEqualsAllSamples ==
    \A i \in 1..Len(dredgers) :
        dredgers[i].total_dredged = DredgingSampleVolume(dredgers[i].event_log)

\* C9 amended: total_dredged never decreases, and at every point it equals the sum of
\* the volumes of the recorded 'dredging' samples less the volume of the dredge phase
\* still in progress (the one carried by the vessel's pending DredgeDone event).
C9_TotalEqualsCompletedSamples ==
    /\ [](\A i \in 1..Len(dredgers) :
             dredgers[i].total_dredged
               = DredgingSampleVolume(dredgers[i].event_log)
                 - PendingDredgeVolume(event_queue, dredgers[i].entity_id))
    /\ [][\A i \in 1..Len(dredgers) :
             dredgers'[i].total_dredged >= dredgers[i].total_dredged]_vars

\* C9 witness: a vessel that has completed a dredge phase is dredging again
C9_Witness ==
    \E i \in 1..Len(dredgers) :
        /\ dredgers[i].total_dredged > 0
        /\ PendingDredgeVolume(event_queue, dredgers[i].entity_id) > 0

\* the distance of the last 'moving_to_da' sample among the first k entries of a log
RECURSIVE LastOutboundDistance(_, _)
LastOutboundDistance(log, k) ==
    IF k = 0 THEN None
    ELSE IF log[k].task = "moving_to_da" THEN log[k].distance_nm
    ELSE LastOutboundDistance(log, k - 1)

\* C10: with an allocator attached, the distance of every 'moving_back' sample equals
\* the distance of the 'moving_to_da' sample of the same cycle.
C10_ReturnUsesOutboundDistance ==
    segment_manager.attached =>
        \A i \in 1..Len(dredgers) :
            \A k \in 1..Len(dredgers[i].event_log) :
                dredgers[i].event_log[k].task = "moving_back" =>
                    dredgers[i].event_log[k].distance_nm
                      = LastOutboundDistance(dredgers[i].event_log, k)

-----------------------------------------------------------------------------
(* The segment allocator on its own: a SegmentManager is constructed from   *)
(* given volumes and a segment length, then allocate is called repeatedly.  *)
(* alloc.log records each call: the request, remaining_m3 before and after, *)
(* and the result.                                                          *)

VolumeInputs == { <<1000, 0, 500>>, <<0, 0>>, <<300, 700>>, <<-10, 600>>, <<>> }
LengthInputs == {0, 1, 2}
Requests == {-5, 0, 400, 1000, 5000}

InitAlloc ==
    /\ NewSimulation
    /\ dredgers = <<>>
    /\ rng = [tape |-> <<>>, pos |-> 0]
    /\ driver = [NoDriver EXCEPT !.mode = "alloc"]
    /\ fork = NoFork
    /\ \E volumes \in VolumeInputs, length \in LengthInputs :
         \* SegmentManager.__init__ raises ValueError for segment_length_nm <= 0
         IF length <= 0
         THEN /\ segment_manager = NoSegmentManager
              /\ alloc = [volumes |-> volumes, length |-> length, raised |-> TRUE,
                          initial |-> <<>>, log |-> <<>>]
         ELSE /\ segment_manager = SegmentManagerNew(volumes, length)
              /\ alloc = [volumes |-> volumes, length |-> length, raised |-> FALSE,
                          initial |-> SegmentManagerNew(volumes, length).remaining_m3,
                          log |-> <<>>]

\* a call seg_mgr.allocate(requested_m3)
Allocate ==
    /\ driver.mode = "alloc"
    /\ segment_manager.attached
    /\ Len(alloc.log) < MaxAllocCalls
    /\ \E requested_m3 \in Requests :
         LET a == allocate(segment_manager, requested_m3)
         IN  /\ segment_manager' = a.mgr
             /\ alloc' = [alloc EXCEPT !.log = Append(@,
                            [requested |-> requested_m3,
                             before |-> segment_manager.remaining_m3,
                             after |-> a.mgr.remaining_m3,
                             res |-> a.res])]
    /\ UNCHANGED <<clock, event_queue, entities, statistics, running, dredgers, rng,
                   call, driver, fork>>

NextAlloc == Allocate

SpecAlloc == InitAlloc /\ [][NextAlloc]_vars

Allocation(segment_index, volume_m3, distance_to_da_nm) ==
    [segment_index |-> segment_index, volume_m3 |-> volume_m3,
     distance_to_da_nm |-> distance_to_da_nm]

ScenarioB == << Allocation(1, 1000, 0), Allocation(3, 500, 4), NoAllocation, NoAllocation >>

\* C6: allocate(requested) with requested > 0 draws from the lowest-index segment with
\* remaining volume > 0, returns min(requested, remaining of that segment) and the
\* distance (index - 1) * segment_length, reduces that one segment by the volume
\* returned, and returns None exactly when no segment has remaining volume; with
\* volumes [1000, 0, 500] and length 2, allocate(5000) returns (1, 1000, 0), then
\* (3, 500, 4), then None.
C6_AllocateNearestFirst ==
    /\ \A k \in 1..Len(alloc.log) :
         LET c == alloc.log[k]
             work == {i \in 1..Len(c.before) : c.before[i] > 0}
         IN  c.requested > 0 =>
               /\ (c.res = NoAllocation) <=> (work = {})
               /\ work = {} => c.after = c.before
               /\ work # {} =>
                    \E i \in work :
                       /\ \A j \in work : i <= j
                       /\ c.res.segment_index = i
                       /\ c.res.volume_m3 = Min(c.requested, c.before[i])
                       /\ c.res.distance_to_da_nm = (i - 1) * alloc.length
                       /\ c.after = [c.before EXCEPT ![i] = @ - c.res.volume_m3]
    /\ (/\ alloc.volumes = <<1000, 0, 500>> /\ alloc.length = 2
        /\ \A k \in 1..Len(alloc.log) : alloc.log[k].requested = 5000)
          => \A k \in 1..Len(alloc.log) : k <= Len(ScenarioB) => alloc.log[k].res = ScenarioB[k]

\* C6 witness: Scenario B has run to its third call, which returned None after two
\* allocations from segments 1 and 3
C6_Witness ==
    /\ alloc.volumes = <<1000, 0, 500>> /\ alloc.length = 2
    /\ Len(alloc.log) = 3
    /\ \A k \in 1..3 : alloc.log[k].requested = 5000
    /\ alloc.log[2].res.segment_index = 3
    /\ alloc.log[3].res = NoAllocation

\* the volume taken from segment i by the calls of a log
RECURSIVE TakenFrom(_, _)
TakenFrom(log, i) ==
    IF log = <<>> THEN 0
    ELSE (IF Head(log).res.segment_index = i THEN Head(log).res.volume_m3 ELSE 0)
         + TakenFrom(Tail(log), i)

\* C7: over any sequence of allocate calls each segment's remaining volume is >= 0 and
\* never increases, the volume taken from a segment never exceeds its initial volume,
\* and a segment that has reached 0 never again yields a positive allocation.
C7_SegmentsOnlyDeplete ==
    /\ [](\A i \in 1..Len(segment_manager.remaining_m3) :
             /\ segment_manager.remaining_m3[i] >= 0
             /\ TakenFrom(alloc.log, i) <= alloc.initial[i]
             /\ \A k \in 1..Len(alloc.log) :
                   (alloc.log[k].before[i] = 0 /\ alloc.log[k].res.segment_index = i)
                      => alloc.log[k].res.volume_m3 <= 0)
    /\ [][\A i \in 1..Len(segment_manager.remaining_m3) :
             segment_manager'.remaining_m3[i] <= segment_manager.remaining_m3[i]]_vars

\* C7 witness: a segment has been emptied by two allocations and a later call, finding
\* it at 0, drew from the next segment
C7_Witness ==
    \E i \in 1..Len(segment_manager.remaining_m3) :
        /\ alloc.initial[i] > 0
        /\ segment_manager.remaining_m3[i] = 0
        /\ \E k1, k2, k3 \in 1..Len(alloc.log) :
              /\ k1 < k2 /\ k2 < k3
              /\ alloc.log[k1].res.segment_index = i
              /\ alloc.log[k2].res.segment_index = i
              /\ alloc.log[k3].before[i] = 0
              /\ alloc.log[k3].res.segment_index > i

-----------------------------------------------------------------------------
(*                  base-app.py: run_simulation_streamlit                   *)

\* a vessel with a spread on the dumping phase only
CfgJit == [CfgStd EXCEPT !.dumping_stdev_pct = 10]

\* a vessel whose mean cycle is longer than half the one-year cap
CfgSlow == [CfgStd EXCEPT !.dredging_time = 500000, !.hopper_capacity = 1000]

\* a vessel whose mean cycle is shorter than the smallest step
CfgTiny == [CfgStd EXCEPT !.dredging_time = 5, !.dumping_time = 5,
                          !.speed_to_da = 100, !.speed_back = 100]

\* (fleet_vessels, target_volume) the driver is called with
Campaigns ==
    { [fleet |-> <<>>, target |-> 0],
      [fleet |-> <<>>, target |-> 5000],
      [fleet |-> <<Vessel("TSHD", CfgStd)>>, target |-> 3000],
      [fleet |-> <<Vessel("TSHD", CfgStd)>>, target |-> 10000],
      [fleet |-> <<Vessel("TSHD", CfgJit)>>, target |-> 5000],
      [fleet |-> <<Vessel("A", CfgJit), Vessel("B", CfgStd)>>, target |-> 10000],
      [fleet |-> <<Vessel("TSHD", CfgStd), Vessel("TSHD", CfgStd)>>, target |-> 10000],
      [fleet |-> <<Vessel("Slow", CfgSlow)>>, target |-> 1000000],
      [fleet |-> <<Vessel("Slow", CfgSlow), Vessel("A", CfgStd)>>, target |-> 10000],
      [fleet |-> <<Vessel("Tiny", CfgTiny)>>, target |-> 10000] }

\* mutant: the first mean cycle is taken for the smallest
SeqMin_first(s) == s[1]

RECURSIVE SeqMin(_)
SeqMin(s) == IF Len(s) = 1 THEN s[1] ELSE Min(Head(s), SeqMin(Tail(s)))

RECURSIVE TotalDredged(_)
TotalDredged(ds) == IF ds = <<>> THEN 0 ELSE Head(ds).total_dredged + TotalDredged(Tail(ds))

InitDriver ==
    /\ NewSimulation
    /\ segment_manager = NoSegmentManager
    /\ dredgers = <<>>
    /\ rng = [tape |-> <<>>, pos |-> 0]
    /\ alloc = NoAlloc
    /\ fork = NoFork
    /\ \E c \in Campaigns :
         driver = [NoDriver EXCEPT !.mode = "campaign", !.pc = "setup", !.fleet = c.fleet,
                                   !.target_volume = c.target]

\* lines 53-58: the mean full-cycle time of a configuration
mean_cycle(cfg) ==
    cfg.dredging_time + TravelTime(cfg.distance_to_da, cfg.speed_to_da)
      + cfg.dumping_time + TravelTime(cfg.distance_back, cfg.speed_back)

\* lines 52-65: one iteration of the loop over fleet_vessels
DriverAddVessel ==
    /\ driver.mode = "campaign" /\ driver.pc = "setup"
    /\ Len(dredgers) < Len(driver.fleet)
    /\ LET k == Len(dredgers) + 1
           dredger == NewTSHD(driver.fleet[k].id, driver.fleet[k].cfg)
       IN  /\ driver' = [driver EXCEPT !.cycle_times = Append(@, mean_cycle(driver.fleet[k].cfg))]
           /\ dredgers' = Append(dredgers, dredger)
           /\ entities' = (dredger.entity_id :> k) @@ entities
           /\ event_queue' = start_work(dredger, event_queue)
    /\ UNCHANGED <<clock, statistics, running, segment_manager, rng, call, alloc, fork>>

\* line 68: step_h = max(0.25, float(min(cycle_times)) if cycle_times else 1.0)
step_of(cycle_times) ==
    Max(MinStep, IF cycle_times # <<>> THEN SeqMin(cycle_times) ELSE DefaultStep)

\* lines 68-70
DriverStep ==
    /\ driver.mode = "campaign" /\ driver.pc = "setup"
    /\ Len(dredgers) = Len(driver.fleet)
    /\ driver' = [driver EXCEPT !.pc = "round",
                                !.step_h = step_of(driver.cycle_times),
                                !.current_end_time = step_of(driver.cycle_times)]
    /\ UNCHANGED <<clock, event_queue, entities, statistics, running, segment_manager,
                   dredgers, rng, call, alloc, fork>>

\* line 73: sim.run(end_time=current_end_time)
DriverRun ==
    /\ driver.mode = "campaign" /\ driver.pc = "round"
    /\ RunCall(driver.current_end_time)
    /\ driver' = [driver EXCEPT !.pc = "running"]
    /\ UNCHANGED <<alloc, fork>>

\* mutant: the target must be exceeded, not reached
stop_campaign_strict(total_material, target_volume, now) ==
    total_material > target_volume \/ now >= MaxSimulationTime

\* line 76: total_material >= target_volume or sim.clock >= max_simulation_time
stop_campaign(total_material, target_volume, now) ==
    total_material >= target_volume \/ now >= MaxSimulationTime

\* mutant: the horizon is moved on by half a step
advance_horizon_half(current_end_time, step_h) == current_end_time + step_h \div 2

\* line 79: current_end_time += step_h
advance_horizon(current_end_time, step_h) == current_end_time + step_h

\* lines 75-79: after run returned, stop or extend the horizon
DriverCheck ==
    /\ driver.mode = "campaign" /\ driver.pc = "running"
    /\ call.pc = "idle"
    /\ IF stop_campaign(TotalDredged(dredgers), driver.target_volume, clock)
       THEN driver' = [driver EXCEPT !.pc = "returned"]
       ELSE /\ driver.rounds < MaxRounds
            /\ driver' = [driver EXCEPT !.pc = "round",
                                        !.current_end_time = advance_horizon(@, driver.step_h),
                                        !.rounds = @ + 1]
    /\ UNCHANGED <<clock, event_queue, entities, statistics, running, segment_manager,
                   dredgers, rng, call, alloc, fork>>

NextDriver == DriverAddVessel \/ DriverStep \/ DriverRun \/ DriverCheck \/ EngineStep

SpecDriver == InitDriver /\ [][NextDriver]_vars

\* line 79 for the termination check, where rounds are not bounded.  run reads its
\* bound only after popping an event (des_framework.py line 69), and in the driver
\* only handlers of popped events schedule events: once the timeline is empty the
\* horizon is never read again, and its growth is not recorded.
next_end_time(current_end_time, step_h, queue) ==
    IF queue = <<>> THEN current_end_time ELSE current_end_time + step_h

\* lines 75-79, rounds unbounded
DriverCheckLive ==
    /\ driver.mode = "campaign" /\ driver.pc = "running"
    /\ call.pc = "idle"
    /\ IF stop_campaign(TotalDredged(dredgers), driver.target_volume, clock)
       THEN driver' = [driver EXCEPT !.pc = "returned"]
       ELSE driver' = [driver EXCEPT !.pc = "round",
                                     !.current_end_time = next_end_time(@, driver.step_h, event_queue)]
    /\ UNCHANGED <<clock, event_queue, entities, statistics, running, segment_manager,
                   dredgers, rng, call, alloc, fork>>

NextDriverLive == DriverAddVessel \/ DriverStep \/ DriverRun \/ DriverCheckLive \/ EngineStep

\* the driver is sequential code: whenever it has a next step, it takes it
SpecDriverLive == InitDriver /\ [][NextDriverLive]_vars /\ WF_vars(NextDriverLive)

\* C4: the campaign driver terminates for every fleet (the empty one included) and
\* every target volume.
C4_DriverTerminates == <>(driver.pc = "returned")

\* C5: when the driver returns, the total dredged is >= the target or the clock is
\* >= the cap; and whenever it went on to another round, neither held at the end of
\* the round.
C5_StopsAtFirstHorizon ==
    /\ [](driver.pc = "returned" =>
             (TotalDredged(dredgers) >= driver.target_volume \/ clock >= MaxSimulationTime))
    /\ [][(driver.pc = "running" /\ driver'.pc = "round") =>
             ~(TotalDredged(dredgers) >= driver.target_volume \/ clock >= MaxSimulationTime)]_vars

\* C5 witness: the driver has returned after more than one round with the target met
C5_Witness ==
    /\ driver.pc = "returned"
    /\ driver.current_end_time > driver.step_h
    /\ driver.target_volume > 0
    /\ TotalDredged(dredgers) >= driver.target_volume

-----------------------------------------------------------------------------
(* Resumability of run.  From a state of the engine between two calls, the  *)
(* harness saves the engine and the vessels, calls run(h1) and then run(h2) *)
(* (leg 1), puts the saved state back with the random source rewound to the *)
(* same draw, calls run(h2) alone (leg 2), and keeps both final states.     *)

ResumeScenarios ==
    { [fleet |-> <<Vessel("A", CfgStd)>>, mgr |-> NoSegmentManager],
      [fleet |-> <<Vessel("A", CfgJit)>>, mgr |-> SegmentManagerNew(<<7500>>, 2)],
      [fleet |-> <<Vessel("A", CfgStd), Vessel("B", CfgStd)>>,
       mgr |-> SegmentManagerNew(<<1000, 0, 500>>, 2)],
      [fleet |-> <<Vessel("A", CfgStd), Vessel("B", CfgStd)>>,
       mgr |-> SegmentManagerNew(<<10000, 2500>>, 2)] }

\* the pairs of bounds h1 <= h2.  A bound of 0 is read by run as no bound at all
\* (see beyond); the comparison is made for the bounds run honours.
ResumeBounds ==
    {b \in (Horizons \ {None, 0}) \X (Horizons \ {None, 0}) : b[1] <= b[2]}

InitResume ==
    /\ NewSimulation
    /\ \E sc \in ResumeScenarios :
         /\ segment_manager = sc.mgr
         /\ driver = [NoDriver EXCEPT !.mode = "resume", !.pc = "setup", !.fleet = sc.fleet]
    /\ dredgers = <<>>
    /\ rng = [tape |-> <<>>, pos |-> 0]
    /\ alloc = NoAlloc
    /\ fork = NoFork

Snapshot == [clock |-> clock, queue |-> event_queue, statistics |-> statistics,
             segment_manager |-> segment_manager, dredgers |-> dredgers, pos |-> rng.pos]

\* a run before the comparison starts, to reach an engine state between calls
ResumeWarmup ==
    /\ driver.mode = "resume" /\ driver.pc = "ready" /\ fork.leg = 0
    /\ clock = 0 /\ statistics.events_processed = 0
    /\ \E end_time \in Horizons \ {None, 0} : RunCall(end_time)
    /\ UNCHANGED <<driver, alloc, fork>>

ResumeFork ==
    /\ driver.mode = "resume" /\ driver.pc = "ready" /\ fork.leg = 0
    /\ call.pc = "idle"
    /\ \E b \in ResumeBounds :
         fork' = [fork EXCEPT !.leg = 1, !.stage = "first", !.h1 = b[1], !.h2 = b[2],
                              !.saved = Snapshot]
    /\ UNCHANGED <<clock, event_queue, entities, statistics, running, segment_manager,
                   dredgers, rng, call, driver, alloc>>

\* leg 1: run(h1)
ResumeRunFirst ==
    /\ fork.leg = 1 /\ fork.stage = "first"
    /\ RunCall(fork.h1)
    /\ fork' = [fork EXCEPT !.stage = "second"]
    /\ UNCHANGED <<driver, alloc>>

\* leg 1: then run(h2)
ResumeRunSecond ==
    /\ fork.leg = 1 /\ fork.stage = "second"
    /\ RunCall(fork.h2)
    /\ fork' = [fork EXCEPT !.stage = "end"]
    /\ UNCHANGED <<driver, alloc>>

\* leg 1 is over: keep its final state, put the saved state back
ResumeRestore ==
    /\ fork.leg = 1 /\ fork.stage = "end"
    /\ call.pc = "idle"
    /\ fork' = [fork EXCEPT !.leg = 2, !.stage = "single", !.final1 = Snapshot]
    /\ clock' = fork.saved.clock
    /\ event_queue' = fork.saved.queue
    /\ statistics' = fork.saved.statistics
    /\ segment_manager' = fork.saved.segment_manager
    /\ dredgers' = fork.saved.dredgers
    /\ rng' = [rng EXCEPT !.pos = fork.saved.pos]
    /\ call' = IdleCall
    /\ UNCHANGED <<entities, running, driver, alloc>>

\* leg 2: run(h2) alone
ResumeRunSingle ==
    /\ fork.leg = 2 /\ fork.stage = "single"
    /\ RunCall(fork.h2)
    /\ fork' = [fork EXCEPT !.stage = "end"]
    /\ UNCHANGED <<driver, alloc>>

ResumeDone ==
    /\ fork.leg = 2 /\ fork.stage = "end"
    /\ call.pc = "idle"
    /\ fork' = [fork EXCEPT !.leg = 3, !.final2 = Snapshot]
    /\ UNCHANGED <<clock, event_queue, entities, statistics, running, segment_manager,
                   dredgers, rng, call, driver, alloc>>

NextResume ==
    \/ AddDredger
    \/ ResumeWarmup
    \/ ResumeFork
    \/ ResumeRunFirst
    \/ ResumeRunSecond
    \/ ResumeRestore
    \/ ResumeRunSingle
    \/ ResumeDone
    \/ EngineStep

SpecResume == InitResume /\ [][NextResume]_vars

Range(seq) == {seq[k] : k \in 1..Len(seq)}

\* C3: for bounds h1 <= h2 and the same sampled durations, run(h1) followed by run(h2)
\* leaves the engine (clock, timeline, statistics) and every vessel in the same final
\* state as run(h2) alone.
C3_ResumeEqualsSingleRun ==
    fork.leg = 3 =>
        /\ fork.final1.clock = fork.final2.clock
        /\ fork.final1.statistics = fork.final2.statistics
        /\ fork.final1.dredgers = fork.final2.dredgers
        /\ fork.final1.segment_manager = fork.final2.segment_manager
        /\ Len(fork.final1.queue) = Len(fork.final2.queue)
        /\ Range(fork.final1.queue) = Range(fork.final2.queue)

-----------------------------------------------------------------------------
(*                    Properties of the vessels' records                    *)

\* C11: after every dispatched event the state of the last state_history entry of each
\* vessel equals the vessel's current state (a vessel with no entry is still Idle).
C11_HistoryTracksState ==
    \A i \in 1..Len(dredgers) :
        LET v == dredgers[i] IN
        IF v.state_history = <<>> THEN v.state = "idle"
        ELSE v.state_history[Len(v.state_history)].state = v.state

\* the floor of the phase a duration sample belongs to
SampleFloor(task) ==
    CASE task = "dredging" -> DredgeFloor
      [] task = "dumping"  -> DumpFloor
      [] OTHER             -> MoveFloor

\* the duration samples of an event_log
Samples(log) == {k \in 1..Len(log) : log[k].task # ""}

\* C12 as stated: every sampled duration recorded by a vessel is strictly greater than
\* its phase floor (dredging 0.1, transit 0.01, dumping 0.05).
C12_SamplesAboveFloor ==
    \A i \in 1..Len(dredgers) :
        \A k \in Samples(dredgers[i].event_log) :
            dredgers[i].event_log[k].duration_h > SampleFloor(dredgers[i].event_log[k].task)

\* C12 amended: every sampled duration recorded by a vessel is at least its phase
\* floor (the floor itself is recorded when the draw falls at or below it).
C12_SamplesAtLeastFloor ==
    \A i \in 1..Len(dredgers) :
        \A k \in Samples(dredgers[i].event_log) :
            dredgers[i].event_log[k].duration_h >= SampleFloor(dredgers[i].event_log[k].task)

\* C12 witness: a vessel has recorded a dredging sample clipped to its floor and an
\* outbound transit over a segment distance of 0, which is the floor as well
C12_Witness ==
    \E i \in 1..Len(dredgers) :
        \E k1, k2 \in Samples(dredgers[i].event_log) :
            LET log == dredgers[i].event_log IN
            /\ log[k1].task = "dredging" /\ log[k1].duration_h = DredgeFloor
            /\ log[k2].task = "moving_to_da" /\ log[k2].distance_nm = 0
            /\ log[k2].duration_h = MoveFloor

-----------------------------------------------------------------------------
(* A caller of the engine's interface.  Besides creating and starting       *)
(* vessels (at any moment between two calls of run, so that start_work may  *)
(* come after the clock has advanced) the caller schedules events itself,   *)
(* with any time and for an entity that is not registered, and calls run    *)
(* with any bound, a bounded number of times.                               *)

MaxStray == 1

\* the times of the events the caller schedules
StrayTimes == {0, 300}

\* the bounds the caller calls run with
CallerHorizons == {None, 100}

CallerScenarios ==
    { [fleet |-> <<>>, mgr |-> NoSegmentManager],
      [fleet |-> <<Vessel("A", CfgStd)>>, mgr |-> SegmentManagerNew(<<5000>>, 2)],
      [fleet |-> <<Vessel("A", CfgStd), Vessel("B", CfgStd)>>,
       mgr |-> SegmentManagerNew(<<1000, 0, 500>>, 2)] }

InitCaller ==
    /\ NewSimulation
    /\ \E sc \in CallerScenarios :
         /\ segment_manager = sc.mgr
         /\ driver = [NoDriver EXCEPT !.mode = "caller", !.pc = "setup", !.fleet = sc.fleet]
    /\ dredgers = <<>>
    /\ rng = [tape |-> <<>>, pos |-> 0]
    /\ alloc = NoAlloc
    /\ fork = NoFork

\* sim.schedule_event(Event(t, ..., entity_id)) with an entity_id that is not registered
CallerSchedule ==
    /\ driver.mode = "caller" /\ call.pc = "idle"
    /\ driver.scheduled < MaxStray
    /\ \E t \in StrayTimes :
         event_queue' = schedule_event(event_queue, Event(t, "dredging_start", "ghost", NoData))
    /\ driver' = [driver EXCEPT !.scheduled = @ + 1]
    /\ UNCHANGED <<clock, entities, statistics, running, segment_manager, dredgers, rng,
                   call, alloc, fork>>

\* sim.run(end_time=...)
CallerRun ==
    /\ driver.mode = "caller"
    /\ driver.rounds < MaxRounds
    /\ \E end_time \in CallerHorizons : RunCall(end_time)
    /\ driver' = [driver EXCEPT !.rounds = @ + 1]
    /\ UNCHANGED <<alloc, fork>>

NextCaller == AddDredger \/ CallerSchedule \/ CallerRun \/ EngineStep

SpecCaller == InitCaller /\ [][NextCaller]_vars

\* the pending events whose entity is not registered
PendingStray == {k \in 1..Len(event_queue) : event_queue[k].entity_id \notin DOMAIN entities}

\* the events a vessel has handled: each handler logs one 'event' entry, and one more
\* when the allocator is exhausted
Handled(v) ==
    Cardinality({k \in 1..Len(v.event_log) :
                   /\ v.event_log[k].event # ""
                   /\ v.event_log[k].event # "No segment work remaining (idle)"})

RECURSIVE HandledByAll(_)
HandledByAll(ds) == IF ds = <<>> THEN 0 ELSE Handled(Head(ds)) + HandledByAll(Tail(ds))

\* the step dispatches an event whose entity is not registered
DispatchesUnknown ==
    /\ call.pc = "loop" /\ call'.dispatched = call.dispatched + 1
    /\ heappop(event_queue).item.entity_id \notin DOMAIN entities

\* C13: when run dispatches an event whose entity_id is not registered, the call goes
\* on: events_processed is incremented, the clock is the event's time, the event is
\* removed from the timeline and nothing else in it, no vessel and no other statistic
\* changes; and the events counted are exactly those the vessels handled plus the
\* dropped ones.
C13_UnknownEntityDropped ==
    /\ [](statistics.events_processed
            = HandledByAll(dredgers) + driver.scheduled - Cardinality(PendingStray))
    /\ [][DispatchesUnknown =>
            /\ call'.pc = "loop" /\ running'
            /\ statistics' = [statistics EXCEPT !.events_processed = @ + 1]
            /\ clock' = heappop(event_queue).item.time
            /\ event_queue' = heappop(event_queue).heap
            /\ dredgers' = dredgers /\ segment_manager' = segment_manager
            /\ entities' = entities]_vars

\* C13 witness: a call has dropped an event of an unregistered entity, gone on to
\* dispatch a later event to a vessel, and returned
C13_Witness ==
    /\ call.pc = "idle" /\ call.dropped # None
    /\ call.last_time > call.dropped
    /\ \E i \in 1..Len(dredgers) :
          /\ dredgers[i].event_log # <<>>
          /\ dredgers[i].event_log[Len(dredgers[i].event_log)].time = call.last_time

-----------------------------------------------------------------------------
(*                     Properties of run (continued)                        *)

\* C14: when a call run(until), made with the clock not beyond until, returns because
\* the timeline is or has become empty, the clock is at the time of the last event the
\* call dispatched (unchanged if it dispatched none) and is not greater than until.
C14_EmptyTimelineKeepsClock ==
    (/\ call.pc = "idle" /\ call.how = "empty"
     /\ call.end_time # None /\ call.clock0 <= call.end_time)
      => /\ clock = (IF call.dispatched = 0 THEN call.clock0 ELSE call.last_time)
         /\ clock <= call.end_time

\* the first call of run on a fresh engine with the single vessel of Scenario A (no
\* allocator, no spread, hopper 5000, 2 h, 5 nm at 10 kn each way, 0.5 h), bound 3.5 h,
\* has returned
ScenarioARun ==
    /\ driver.fleet = <<Vessel("A", CfgStd)>> /\ ~segment_manager.attached
    /\ Len(dredgers) = 1
    /\ call.pc = "idle" /\ call.end_time = 350
    /\ call.clock0 = 0 /\ statistics.events_processed = call.dispatched
    /\ call.dispatched > 0

\* C15: Scenario A: after run(end_time=3.5) the clock is 3.5, cycle_count is 1 and
\* total_dredged is 5000; the events at time 3.5 have been processed (the vessel is
\* dredging again) and the next DredgeDone, at 5.5, is the one pending event.
C15_ScenarioA ==
    ScenarioARun =>
        /\ clock = 350
        /\ dredgers[1].cycle_count = 1
        /\ dredgers[1].total_dredged = 5000
        /\ dredgers[1].state = "dredging"
        /\ Len(event_queue) = 1
        /\ event_queue[1].event_type = "dredging_complete"
        /\ event_queue[1].time = 550
        /\ statistics.dredging_cycles = 1

\* C15 witness: the run of Scenario A has returned by putting the DredgeDone back
C15_Witness == ScenarioARun /\ call.how = "break" /\ call.last_time = 350

-----------------------------------------------------------------------------
(*                 Properties of the campaign driver (continued)            *)

\* a campaign of one vessel whose target is positive and at most one hopper load
OneLoadCampaign ==
    /\ driver.mode = "campaign" /\ Len(driver.fleet) = 1
    /\ driver.target_volume > 0
    /\ driver.target_volume <= driver.fleet[1].cfg.hopper_capacity

ZeroSpread(cfg) ==
    cfg.dredging_stdev_pct = 0 /\ cfg.moving_stdev_pct = 0 /\ cfg.dumping_stdev_pct = 0

-----------------------------------------------------------------------------
(* Reproducibility of a campaign.  The campaign is executed, its final      *)
(* state kept; then the random source is seeded again (rewound to its first *)
(* draw), a new engine and new vessels are made from the same arguments and *)
(* the same allocator contents, the campaign is executed a second time and  *)
(* the two final states are compared.                                       *)

ReplayCampaigns ==
    { [fleet |-> <<Vessel("TSHD", CfgJit)>>, target |-> 5000, mgr |-> NoSegmentManager],
      [fleet |-> <<Vessel("A", CfgJit), Vessel("B", CfgStd)>>, target |-> 10000,
       mgr |-> NoSegmentManager],
      [fleet |-> <<Vessel("A", CfgJit), Vessel("B", CfgStd)>>, target |-> 10000,
       mgr |-> SegmentManagerNew(<<10000, 2500>>, 2)],
      [fleet |-> <<Vessel("A", CfgStd), Vessel("B", CfgStd)>>, target |-> 12500,
       mgr |-> SegmentManagerNew(<<10000, 2500>>, 2)] }

InitReplay ==
    /\ NewSimulation
    /\ dredgers = <<>>
    /\ rng = [tape |-> <<>>, pos |-> 0]
    /\ alloc = NoAlloc
    /\ \E c \in ReplayCampaigns :
         /\ segment_manager = c.mgr
         /\ fork = [NoFork EXCEPT !.leg = 1, !.stage = "first", !.saved = c.mgr]
         /\ driver = [NoDriver EXCEPT !.mode = "campaign", !.pc = "setup", !.fleet = c.fleet,
                                      !.target_volume = c.target]

\* the first execution has returned: keep its final state, seed the random source
\* again (np.random.seed, base-app.py line 413) and call the driver anew
ReplayRestart ==
    /\ fork.leg = 1 /\ driver.pc = "returned"
    /\ fork' = [fork EXCEPT !.leg = 2, !.stage = "second", !.final1 = Snapshot]
    /\ clock' = 0
    /\ event_queue' = <<>>
    /\ entities' = <<>>
    /\ statistics' = NewStatistics
    /\ running' = FALSE
    /\ call' = IdleCall
    /\ dredgers' = <<>>
    /\ segment_manager' = fork.saved
    /\ rng' = [rng EXCEPT !.pos = 0]
    /\ driver' = [NoDriver EXCEPT !.mode = "campaign", !.pc = "setup", !.fleet = driver.fleet,
                                  !.target_volume = driver.target_volume]
    /\ UNCHANGED alloc

\* the second execution has returned
ReplayDone ==
    /\ fork.leg = 2 /\ driver.pc = "returned"
    /\ fork' = [fork EXCEPT !.leg = 3, !.stage = "end", !.final2 = Snapshot]
    /\ UNCHANGED <<clock, event_queue, entities, statistics, running, segment_manager,
                   dredgers, rng, call, driver, alloc>>

NextReplay ==
    \/ DriverAddVessel
    \/ DriverStep
    \/ DriverRun
    \/ DriverCheck
    \/ EngineStep
    \/ ReplayRestart
    \/ ReplayDone

SpecReplay == InitReplay /\ [][NextReplay]_vars

-----------------------------------------------------------------------------
(*                  Properties of the allocator (continued)                 *)

\* C18: invalid inputs to the allocator are reported and never silently coerced: a
\* segment_length <= 0 makes the construction fail and yields no allocator; a
\* constructed allocator holds the volumes it was given (a negative volume is not
\* replaced by another value); allocate(requested) with requested <= 0 returns None
\* and leaves every segment's remaining volume unchanged.
C18_InvalidInputsReported ==
    /\ alloc.length <= 0 => (alloc.raised /\ ~segment_manager.attached)
    /\ ~alloc.raised => alloc.initial = alloc.volumes
    /\ \A k \in 1..Len(alloc.log) :
          alloc.log[k].requested <= 0 =>
             (alloc.log[k].res = NoAllocation /\ alloc.log[k].after = alloc.log[k].before)

-----------------------------------------------------------------------------
(*                  Properties of the timeline's order                      *)

\* the step dispatches an event (to a vessel, or to nobody)
Dispatches == call.pc = "loop" /\ call'.dispatched = call.dispatched + 1

\* C19: within and across calls of run, events are dispatched in non-decreasing time
\* order: the event dispatched is not earlier than the event dispatched before it, and
\* no event pending in the timeline has a strictly smaller time.
C19_DispatchInTimeOrder ==
    [][Dispatches =>
         /\ heappop(event_queue).item.time >= call.last_time
         /\ \A k \in 1..Len(event_queue) :
               event_queue[k].time >= heappop(event_queue).item.time]_vars

-----------------------------------------------------------------------------
(*                     Properties of the vessel's cycle                     *)

\* the message each handler logs, in the order of the cycle: DredgeStart, DredgeDone,
\* TransitOutStart, TransitOutDone, DumpStart, DumpDone, TransitBackStart,
\* TransitBackDone
HandlerOrder ==
    << "Starting dredging", "Dredging complete", "Moving to dumping area",
       "Arrived at dumping area", "Starting dumping", "Dumping complete",
       "Moving back to dredging area", "Arrived back at dredging area" >>

\* the state a vessel is in once it has handled the n-th event of the cycle
StateAfter ==
    << "dredging", "moving_to_da", "moving_to_da", "dumping", "dumping",
       "moving_back", "moving_back", "dredging" >>

IsHandlerEntry(entry) ==
    entry.event # "" /\ entry.event # "No segment work remaining (idle)"

\* the entries of an event_log that record a handled event, one per event
HandledEntries(log) == SelectSeq(log, IsHandlerEntry)

CyclePos(k) == ((k - 1) % 8) + 1

\* C20: the events a vessel handles occur in the repeating order DredgeStart,
\* DredgeDone, TransitOutStart, TransitOutDone, DumpStart, DumpDone, TransitBackStart,
\* TransitBackDone, and its state follows Idle, Dredging, TransitingOut, Dumping,
\* TransitingBack, Dredging; every X-Start marker is handled at the clock value of the
\* completion before it, and every X-Done strictly later than its X-Start.
C20_CycleOrder ==
    \A i \in 1..Len(dredgers) :
        LET v == dredgers[i]
            m == HandledEntries(v.event_log)
        IN  /\ \A k \in 1..Len(m) :
                  /\ m[k].event = HandlerOrder[CyclePos(k)]
                  /\ (k > 1 /\ CyclePos(k) \in {1, 3, 5, 7}) => m[k].time = m[k - 1].time
                  /\ CyclePos(k) \in {2, 4, 6, 8} => m[k].time > m[k - 1].time
            /\ v.state = IF m = <<>> \/ Exhausted(v) THEN "idle"
                         ELSE StateAfter[CyclePos(Len(m))]

\* C20 witness: two vessels have each handled a full cycle and the DredgeStart of the
\* next one, their events interleaved on one timeline
C20_Witness ==
    /\ Len(dredgers) = 2
    /\ \A i \in 1..2 : Len(HandledEntries(dredgers[i].event_log)) >= 9
    /\ dredgers[1].event_log[Len(dredgers[1].event_log)].time
         # dredgers[2].event_log[Len(dredgers[2].event_log)].time

-----------------------------------------------------------------------------
(*                 Properties of the hopper and of the counters             *)

\* the event the dispatching step pops, and the vessel (index) that handles it
Dispatched == heappop(event_queue).item

HandledBy(i) ==
    /\ Dispatches
    /\ Dispatched.entity_id \in DOMAIN entities
    /\ entities[Dispatched.entity_id] = i

\* C21: in every reachable state each vessel's hopper_level is within
\* [0, hopper_capacity]; DredgeDone sets it to the volume allocated to that cycle and
\* adds the same amount to total_dredged, DumpDone resets it to 0 and leaves
\* total_dredged alone, and no other step changes hopper_level or total_dredged.
C21_HopperWithinCapacity ==
    /\ [](\A i \in 1..Len(dredgers) :
             /\ dredgers[i].hopper_level >= 0
             /\ dredgers[i].hopper_level <= dredgers[i].config.hopper_capacity)
    /\ [][\A i \in 1..Len(dredgers) :
             LET v == dredgers[i]
                 n == dredgers'[i]
             IN  IF HandledBy(i) /\ Dispatched.event_type = "dredging_complete"
                 THEN /\ n.hopper_level = Dispatched.data.allocated_volume_m3
                      /\ n.total_dredged
                           = v.total_dredged + Dispatched.data.allocated_volume_m3
                 ELSE IF HandledBy(i) /\ Dispatched.event_type = "dumping_complete"
                 THEN /\ n.hopper_level = 0
                      /\ n.total_dredged = v.total_dredged
                 ELSE /\ n.hopper_level = v.hopper_level
                      /\ n.total_dredged = v.total_dredged]_vars

\* C21 witness: a vessel carries a partial load, less than what it has dredged in all
C21_Witness ==
    \E i \in 1..Len(dredgers) :
        /\ dredgers[i].hopper_level > 0
        /\ dredgers[i].hopper_level < dredgers[i].config.hopper_capacity
        /\ dredgers[i].total_dredged > dredgers[i].hopper_level

\* the sum of cycle_count over a fleet
RECURSIVE CycleCounts(_)
CycleCounts(ds) ==
    IF ds = <<>> THEN 0 ELSE Head(ds).cycle_count + CycleCounts(Tail(ds))

\* C22: each DumpDone increments the handling vessel's cycle_count and the engine's
\* dredging_cycles counter by exactly 1 and no other step changes them, so in every
\* reachable state the sum of cycle_count over the registered vessels equals
\* statistics['dredging_cycles'].
C22_CyclesCountedOnce ==
    /\ [](CycleCounts(dredgers) = statistics.dredging_cycles)
    /\ [][/\ \A i \in 1..Len(dredgers) :
                dredgers'[i].cycle_count
                  = dredgers[i].cycle_count
                    + (IF HandledBy(i) /\ Dispatched.event_type = "dumping_complete"
                       THEN 1 ELSE 0)
          /\ statistics'.dredging_cycles
               = statistics.dredging_cycles
                 + (IF /\ Dispatches
                       /\ Dispatched.entity_id \in DOMAIN entities
                       /\ Dispatched.event_type = "dumping_complete"
                    THEN 1 ELSE 0)]_vars

\* C22 witness: two vessels have each completed a cycle
C22_Witness ==
    /\ Len(dredgers) = 2
    /\ \A i \in 1..2 : dredgers[i].cycle_count >= 1
    /\ statistics.dredging_cycles >= 2

-----------------------------------------------------------------------------
(*                   Properties of the aggregate statistics                 *)

\* the phase a completion event ends, and the duration that event carries
PhaseEnded ==
    [dredging_complete |-> "dredging", move_to_da_complete |-> "moving_to_da",
     dumping_complete |-> "dumping", move_back_complete |-> "moving_back"]

CarriedDuration(e) ==
    CASE e.event_type = "dredging_complete" -> e.data.actual_dredging_time
      [] e.event_type = "dumping_complete" -> e.data.actual_dumping_time
      [] OTHER -> e.data.actual_travel_time

\* the durations sampled for the phases in `tasks` recorded in an event_log
RECURSIVE SampledTime(_, _)
SampledTime(log, tasks) ==
    IF log = <<>> THEN 0
    ELSE (IF Head(log).task \in tasks THEN Head(log).duration_h ELSE 0)
         + SampledTime(Tail(log), tasks)

RECURSIVE FleetSampledTime(_, _)
FleetSampledTime(ds, tasks) ==
    IF ds = <<>> THEN 0
    ELSE SampledTime(Head(ds).event_log, tasks) + FleetSampledTime(Tail(ds), tasks)

\* the durations of the phases in `tasks` that are still in progress
RECURSIVE InProgressTime(_, _)
InProgressTime(queue, tasks) ==
    IF queue = <<>> THEN 0
    ELSE (IF /\ Head(queue).event_type \in DOMAIN PhaseEnded
             /\ PhaseEnded[Head(queue).event_type] \in tasks
          THEN CarriedDuration(Head(queue)) ELSE 0)
         + InProgressTime(Tail(queue), tasks)

CompletedTime(tasks) ==
    FleetSampledTime(dredgers, tasks) - InProgressTime(event_queue, tasks)

\* what the dispatching step adds to the statistic of the phases in `tasks`
Completes(tasks) ==
    IF /\ Dispatches
       /\ Dispatched.entity_id \in DOMAIN entities
       /\ Dispatched.event_type \in DOMAIN PhaseEnded
       /\ PhaseEnded[Dispatched.event_type] \in tasks
    THEN CarriedDuration(Dispatched) ELSE 0

\* C23: the aggregate time statistics grow only when a phase completes, and by the
\* duration sampled when that phase started: total_dredging_time is the sum of the
\* sampled durations of the completed dredge phases, total_dumping_time that of the
\* completed dumps, total_moving_time that of the completed outbound and return legs;
\* a phase still in progress (also when run has returned) contributes nothing.
C23_StatisticsSumCompletedPhases ==
    /\ [](/\ statistics.total_dredging_time = CompletedTime({"dredging"})
          /\ statistics.total_dumping_time = CompletedTime({"dumping"})
          /\ statistics.total_moving_time = CompletedTime({"moving_to_da", "moving_back"}))
    /\ [][/\ statistics'.total_dredging_time
               = statistics.total_dredging_time + Completes({"dredging"})
          /\ statistics'.total_dumping_time
               = statistics.total_dumping_time + Completes({"dumping"})
          /\ statistics'.total_moving_time
               = statistics.total_moving_time
                 + Completes({"moving_to_da", "moving_back"})]_vars

\* C23 witness: run has returned while a vessel with a spread on its durations is in
\* its second dredge phase; of the durations sampled so far some are off the mean
C23_Witness ==
    /\ call.pc = "idle" /\ call.how # ""
    /\ \E i \in 1..Len(dredgers) :
          /\ dredgers[i].config = CfgVar
          /\ dredgers[i].cycle_count >= 1
          /\ PendingDredgeVolume(event_queue, dredgers[i].entity_id) > 0
    /\ statistics.total_dredging_time % CfgVar.dredging_time # 0
    /\ statistics.total_moving_time > 0
    /\ InProgressTime(event_queue, {"dredging"}) > 0

-----------------------------------------------------------------------------
(*                   Properties of the driver's horizons                    *)

\* the smallest mean full-cycle time of a fleet (1.0 for an empty fleet)
FleetMinCycle(fleet) ==
    IF fleet = <<>> THEN DefaultStep
    ELSE CHOOSE m \in {mean_cycle(fleet[k].cfg) : k \in 1..Len(fleet)} :
             \A k \in 1..Len(fleet) : m <= mean_cycle(fleet[k].cfg)

\* C24: the driver computes step = max(0.25, smallest mean full-cycle time of the
\* fleet) once; the k-th round calls run with the horizon k * step; the step never
\* changes during the campaign and the horizons are strictly increasing.
C24_HorizonsAreMultiplesOfStep ==
    /\ [](driver.pc \in {"round", "running", "returned"} =>
             /\ driver.step_h = FleetMinCycle(driver.fleet) \/ driver.step_h = MinStep
             /\ driver.step_h >= FleetMinCycle(driver.fleet)
             /\ driver.step_h >= MinStep
             /\ driver.current_end_time = driver.rounds * driver.step_h
             /\ (driver.pc = "running" => call.end_time = driver.current_end_time))
    /\ [][driver.pc # "setup" =>
             /\ driver'.step_h = driver.step_h
             /\ (driver'.rounds # driver.rounds =>
                    /\ driver'.rounds = driver.rounds + 1
                    /\ driver'.current_end_time > driver.current_end_time)
             /\ (driver'.rounds = driver.rounds =>
                    driver'.current_end_time = driver.current_end_time)]_vars

\* C24 witness: the second round of a fleet whose fastest vessel is not its first
C24_Witness ==
    /\ driver.pc = "running" /\ driver.rounds = 2
    /\ Len(driver.fleet) = 2
    /\ mean_cycle(driver.fleet[2].cfg) < mean_cycle(driver.fleet[1].cfg)
    /\ call.end_time = 2 * mean_cycle(driver.fleet[2].cfg)

-----------------------------------------------------------------------------
(*                 Properties of a run without an allocator                 *)

\* the number of entries of an event_log with the given message
RECURSIVE CountEvent(_, _)
CountEvent(log, message) ==
    IF log = <<>> THEN 0
    ELSE (IF Head(log).event = message THEN 1 ELSE 0) + CountEvent(Tail(log), message)

\* C25: with no segment allocator attached to the engine, every DredgeStart of every
\* vessel allocates exactly hopper_capacity at the configured distance_to_da, never
\* leads to Idle and always schedules a DredgeDone: a started vessel has an event
\* pending at all times, and total_dredged = hopper_capacity * (DredgeDone handled).
C25_NoAllocatorFullLoads ==
    /\ [](~segment_manager.attached =>
            \A i \in 1..Len(dredgers) :
                LET v == dredgers[i]
                IN  /\ \A k \in 1..Len(v.event_log) :
                          /\ v.event_log[k].task = "dredging" =>
                                v.event_log[k].volume_m3 = v.config.hopper_capacity
                          /\ v.event_log[k].task = "moving_to_da" =>
                                v.event_log[k].distance_nm = v.config.distance_to_da
                    /\ ~Exhausted(v)
                    /\ CountEvent(v.event_log, "Starting dredging") >= 1 => v.state # "idle"
                    /\ Pending(v.entity_id) # {}
                    /\ v.total_dredged
                         = v.config.hopper_capacity
                             * CountEvent(v.event_log, "Dredging complete"))
    /\ [][\A i \in 1..Len(dredgers) :
             (/\ ~segment_manager.attached
              /\ HandledBy(i)
              /\ Dispatched.event_type = "dredging_start")
             => /\ dredgers'[i].state = "dredging"
                /\ \E k \in 1..Len(event_queue') :
                      /\ event_queue'[k].entity_id = dredgers[i].entity_id
                      /\ event_queue'[k].event_type = "dredging_complete"
                      /\ event_queue'[k].data.allocated_volume_m3
                           = dredgers[i].config.hopper_capacity
                      /\ event_queue'[k].data.distance_to_da_nm
                           = dredgers[i].config.distance_to_da]_vars

\* C25 witness: without an allocator a vessel is in its third dredge phase
C25_Witness ==
    /\ ~segment_manager.attached
    /\ \E i \in 1..Len(dredgers) :
          /\ CountEvent(dredgers[i].event_log, "Dredging complete") = 2
          /\ dredgers[i].state = "dredging"
          /\ dredgers[i].cycle_count = 2

-----------------------------------------------------------------------------
(*                     Properties of the bounded run                        *)

\* C26: a call run(until) with a finite bound until >= 0 dispatches finitely many
\* events and returns, even with vessels that reschedule themselves for ever: a cycle
\* of a vessel is 8 events and lasts at least the sum of the floors of its four
\* phases, so a call dispatches at most 8 events per started cycle within [0, until]
\* and vessel, and the DredgeStart that follows.
C26_BoundedRunDispatchesFinitely ==
    (call.end_time # None /\ call.end_time >= 0) =>
        call.dispatched
          <= Len(dredgers)
               * (8 * (call.end_time \div (DredgeFloor + MoveFloor + DumpFloor + MoveFloor) + 1)
                  + 1)

\* the events a dispatching step adds to the timeline
Scheduled == Range(event_queue') \ Range(heappop(event_queue).heap)

StartMarkers ==
    {"dredging_start", "move_to_da_start", "dumping_start", "move_back_start"}

\* C27: every event a vessel handler schedules has a time >= the clock at the moment
\* of scheduling: an X-Start marker is exactly at the clock, an X-Done event strictly
\* later; so in a run driven only by start_work at clock 0 and by the vessel handlers
\* no pending event ever has a time smaller than the clock.
C27_NothingScheduledInThePast ==
    /\ [](\A k \in 1..Len(event_queue) : event_queue[k].time >= clock)
    /\ [][Dispatches =>
             /\ Len(event_queue') = Len(event_queue) - 1 + Cardinality(Scheduled)
             /\ \A e \in Scheduled :
                   /\ e.entity_id = Dispatched.entity_id
                   /\ IF e.event_type \in StartMarkers
                      THEN e.time = clock'
                      ELSE e.time > clock']_vars

\* C27 witness: a marker at the clock and a completion later than the clock are
\* pending together, during a run that follows an earlier one
C27_Witness ==
    /\ call.pc = "loop" /\ call.clock0 > 0
    /\ \E k \in 1..Len(event_queue) :
          event_queue[k].event_type \in StartMarkers /\ event_queue[k].time = clock
    /\ \E k \in 1..Len(event_queue) :
          event_queue[k].event_type \notin StartMarkers /\ event_queue[k].time > clock

-----------------------------------------------------------------------------
(*                  Properties of the shared channel volume                 *)

\* the volume of the channel when the allocator was constructed
InitialVolume ==
    total_remaining((CHOOSE s \in Scenarios : s.fleet = driver.fleet).mgr)

RECURSIVE AllPendingDredgeVolume(_, _)
AllPendingDredgeVolume(queue, ds) ==
    IF ds = <<>> THEN 0
    ELSE PendingDredgeVolume(queue, Head(ds).entity_id)
         + AllPendingDredgeVolume(queue, Tail(ds))

\* C28: with a segment allocator shared by all vessels volume is conserved in every
\* reachable state: the initial total segment volume equals total_remaining() plus the
\* sum over the vessels of total_dredged plus the allocated volumes carried by the
\* pending DredgeDone events; nothing is allocated twice or lost.
C28_VolumeConserved ==
    segment_manager.attached =>
        InitialVolume
          = total_remaining(segment_manager) + TotalDredged(dredgers)
            + AllPendingDredgeVolume(event_queue, dredgers)

\* C28 witness: two vessels share the channel; one has loaded volume to its name,
\* the other is dredging, and the channel still holds more
C28_Witness ==
    /\ segment_manager.attached /\ Len(dredgers) = 2
    /\ total_remaining(segment_manager) > 0
    /\ \E i, j \in 1..2 :
          /\ i # j
          /\ dredgers[i].total_dredged > 0
          /\ PendingDredgeVolume(event_queue, dredgers[j].entity_id) > 0

-----------------------------------------------------------------------------
(* A run to exhaustion: vessels are started on an engine with an allocator  *)
(* attached, and run is called without a bound or with the one-year cap;    *)
(* a first call with a short bound is followed by a call without one.       *)

ExhaustScenarios ==
    { [fleet |-> <<Vessel("A", CfgStd)>>, mgr |-> SegmentManagerNew(<<5000>>, 2)],
      [fleet |-> <<Vessel("A", CfgVar)>>, mgr |-> SegmentManagerNew(<<5000, -10, 2500>>, 2)],
      [fleet |-> <<Vessel("A", CfgStd), Vessel("B", CfgStd)>>,
       mgr |-> SegmentManagerNew(<<1000, 0, 500>>, 2)],
      [fleet |-> <<Vessel("A", CfgJit), Vessel("B", CfgStd)>>,
       mgr |-> SegmentManagerNew(<<0, 5000>>, 2)] }

ExhaustHorizons == {None, 100, MaxSimulationTime}

InitExhaust ==
    /\ NewSimulation
    /\ \E sc \in ExhaustScenarios :
         /\ segment_manager = sc.mgr
         /\ driver = [NoDriver EXCEPT !.mode = "exhaust", !.pc = "setup", !.fleet = sc.fleet]
    /\ dredgers = <<>>
    /\ rng = [tape |-> <<>>, pos |-> 0]
    /\ alloc = NoAlloc
    /\ fork = NoFork

\* sim.run(end_time=...): the first call with any of the bounds, a call after a
\* return at the bound without one
ExhaustRun ==
    /\ driver.mode = "exhaust" /\ driver.pc = "ready"
    /\ call.how \in {"", "break"}
    /\ \E end_time \in (IF call.how = "" THEN ExhaustHorizons ELSE {None}) :
          RunCall(end_time)
    /\ UNCHANGED <<driver, alloc, fork>>

NextExhaust == AddDredger \/ ExhaustRun \/ EngineStep

\* the program keeps running: a step that can be taken is taken
SpecExhaust == InitExhaust /\ [][NextExhaust]_vars /\ WF_vars(NextExhaust)

\* the volume of the channel when the allocator was constructed
ExhaustVolume ==
    total_remaining((CHOOSE s \in ExhaustScenarios : s.fleet = driver.fleet).mgr)

AllWorkDone ==
    /\ Len(dredgers) = Len(driver.fleet)
    /\ \A i \in 1..Len(dredgers) :
          dredgers[i].state = "idle" /\ dredgers[i].hopper_level = 0
    /\ event_queue = <<>>
    /\ total_remaining(segment_manager) = 0
    /\ TotalDredged(dredgers) = ExhaustVolume

\* C29: with a segment allocator of finite total volume attached and run called
\* without a bound (or with a large enough one), eventually every vessel is Idle with
\* hopper_level 0, the timeline is empty, total_remaining() is 0 and the sum of
\* total_dredged over the vessels equals the initial total segment volume.
C29_EventuallyExhausted == <>AllWorkDone

\* C29 witness: run has returned on an empty timeline after two vessels took the
\* whole channel between them
C29_Witness ==
    /\ AllWorkDone
    /\ call.pc = "idle" /\ call.how = "empty"
    /\ Len(dredgers) = 2
    /\ \A i \in 1..2 : dredgers[i].total_dredged > 0
    /\ ExhaustVolume > 0

-----------------------------------------------------------------------------
(*                 Properties of the state a bounded run leaves             *)

\* the completion event a vessel in a given state is waiting for
AwaitedEvent ==
    [dredging |-> "dredging_complete", moving_to_da |-> "move_to_da_complete",
     dumping |-> "dumping_complete", moving_back |-> "move_back_complete"]

\* C30: whenever a bounded call run(until) has returned, every started, registered
\* vessel that is not Idle has exactly one pending event in the timeline, an X-Done
\* event whose type matches the vessel's state (Dredging: DredgeDone, TransitingOut:
\* TransitOutDone, Dumping: DumpDone, TransitingBack: TransitBackDone); an Idle vessel
\* has no pending event.
C30_OnePendingCompletionPerVessel ==
    (call.pc = "idle" /\ call.how # "" /\ call.end_time # None) =>
        \A i \in 1..Len(dredgers) :
            LET v == dredgers[i]
            IN  IF v.state = "idle"
                THEN Pending(v.entity_id) = {}
                ELSE /\ Cardinality(Pending(v.entity_id)) = 1
                     /\ \A k \in Pending(v.entity_id) :
                           event_queue[k].event_type = AwaitedEvent[v.state]

\* C30 witness: a bounded run has returned at its bound with one vessel at work and
\* the other idle, the channel exhausted
C30_Witness ==
    /\ call.pc = "idle" /\ call.how = "break" /\ call.end_time # None
    /\ \E i, j \in 1..Len(dredgers) :
          /\ dredgers[i].state \in DOMAIN AwaitedEvent
          /\ Cardinality(Pending(dredgers[i].entity_id)) = 1
          /\ dredgers[j].state = "idle" /\ Exhausted(dredgers[j])

-----------------------------------------------------------------------------
(*                Properties of the clock the driver returns                *)

\* C31: for a non-empty fleet the clock the campaign driver returns with is an integer
\* multiple k * step of the driver's step, k >= 1, and is smaller than cap + step: it
\* is the horizon of the last call of run, which returned by putting an event back,
\* and not the time of the event that met the target.
C31_ReturnsAtMultipleOfStep ==
    (driver.mode = "campaign" /\ driver.pc = "returned" /\ driver.fleet # <<>>) =>
        LET step == Max(MinStep, FleetMinCycle(driver.fleet))
        IN  /\ clock >= step
            /\ clock % step = 0
            /\ clock < MaxSimulationTime + step
            /\ clock = driver.current_end_time
            /\ call.how = "break"
            /\ call.last_time <= clock

\* C31 witness: the driver has returned at the second horizon, the first one at or
\* beyond the cap, with the target not met and the last event earlier than the clock
C31_Witness ==
    /\ driver.mode = "campaign" /\ driver.pc = "returned" /\ driver.fleet # <<>>
    /\ clock = 2 * driver.step_h
    /\ clock >= MaxSimulationTime
    /\ TotalDredged(dredgers) < driver.target_volume
    /\ TotalDredged(dredgers) > 0

-----------------------------------------------------------------------------
(* The order of equal-time events.  Event.__lt__ compares times only, so    *)
(* which of several events of the same time leaves the timeline first is    *)
(* left to the priority queue.  Here the queue may hand out any event of    *)
(* the smallest time, and the same fleet is run twice to the same bound.    *)
(* Each vessel draws its durations from a sequence of its own.              *)

\* a vessel with a smaller hopper
CfgSmall == [CfgStd EXCEPT !.hopper_capacity = 1000]

TiesScenarios ==
    { [fleet |-> <<Vessel("A", CfgStd), Vessel("B", CfgStd)>>, mgr |-> NoSegmentManager],
      [fleet |-> <<Vessel("A", CfgVar), Vessel("B", CfgVar)>>, mgr |-> NoSegmentManager],
      [fleet |-> <<Vessel("A", CfgStd), Vessel("B", CfgSmall), Vessel("C", CfgStd)>>,
       mgr |-> NoSegmentManager],
      [fleet |-> <<Vessel("A", CfgStd), Vessel("B", CfgStd)>>,
       mgr |-> SegmentManagerNew(<<1000, 0, 500>>, 2)],
      [fleet |-> <<Vessel("A", CfgStd), Vessel("B", CfgSmall)>>,
       mgr |-> SegmentManagerNew(<<3000, 5000>>, 2)] }

TiesHorizons == {None, 100, 350}

\* the timeline holding the given events
RECURSIVE Timeline(_)
Timeline(events) ==
    IF events = <<>> THEN <<>> ELSE heappush(Timeline(Tail(events)), Head(events))

\* what get_next_event may return when equal times are in no particular order: any
\* event of the smallest time, the others staying in the timeline
TiePops(queue) ==
    { [item |-> queue[k],
       heap |-> Timeline([j \in 1..(Len(queue) - 1) |->
                            IF j < k THEN queue[j] ELSE queue[j + 1]])] :
        k \in {j \in 1..Len(queue) : \A m \in 1..Len(queue) : ~Lt(queue[m], queue[j])} }

\* the n-th standard-normal draw of the i-th vessel's own sequence
VesselDraw(i, n) == IF (i + n) % 2 = 0 THEN -4 ELSE 0

InitTies ==
    /\ NewSimulation
    /\ dredgers = <<>>
    /\ rng = [tape |-> <<>>, pos |-> 0]
    /\ alloc = NoAlloc
    /\ \E sc \in TiesScenarios, until \in TiesHorizons :
         /\ segment_manager = sc.mgr
         /\ fork = [NoFork EXCEPT !.leg = 1, !.stage = "first", !.saved = sc.mgr,
                                  !.h1 = until]
         /\ driver = [NoDriver EXCEPT !.mode = "ties", !.pc = "setup", !.fleet = sc.fleet]

\* sim.run(end_time=until), once in each execution
TiesRun ==
    /\ driver.mode = "ties" /\ driver.pc = "ready"
    /\ call.how = ""
    /\ RunCall(fork.h1)
    /\ UNCHANGED <<driver, alloc, fork>>

\* run, lines 66-67 and 74-82, with any event of the smallest time popped
TieDispatch ==
    /\ call.pc = "loop"
    /\ event_queue # <<>> /\ running
    /\ statistics.events_processed < MaxEvents
    /\ \E p \in TiePops(event_queue) :
         LET event == p.item
             stats1 == [statistics EXCEPT !.events_processed = @ + 1]
             i == entities[event.entity_id]
             o == handle_event(dredgers[i], event,
                      [clock |-> dispatch_clock(clock, event), queue |-> p.heap,
                       stats |-> stats1, mgr |-> segment_manager],
                      VesselDraw(i, Cardinality(Samples(dredgers[i].event_log))))
         IN  /\ ~beyond(call.end_time, event)
             /\ call' = [call EXCEPT !.dispatched = @ + 1, !.last_time = event.time,
                                     !.late = @ \/ (call.end_time # None
                                                    /\ event.time > call.end_time)]
             /\ clock' = o.w.clock
             /\ event_queue' = o.w.queue
             /\ statistics' = o.w.stats
             /\ segment_manager' = o.w.mgr
             /\ dredgers' = [dredgers EXCEPT ![i] = o.v]
    /\ UNCHANGED <<entities, running, rng, driver, alloc, fork>>

TiesEngineStep ==
    /\ \/ RunBreak
       \/ RunExit
    /\ UNCHANGED <<driver, alloc, fork>>

\* what is compared of an execution: of each vessel its state, hopper_level,
\* total_dredged, cycle_count and state_history; of the allocator the volume handed out
TiesSnapshot ==
    [vessels |-> [i \in 1..Len(dredgers) |->
                    [state |-> dredgers[i].state,
                     hopper_level |-> dredgers[i].hopper_level,
                     total_dredged |-> dredgers[i].total_dredged,
                     cycle_count |-> dredgers[i].cycle_count,
                     state_history |-> dredgers[i].state_history]],
     allocated |-> TotalDredged(dredgers) + AllPendingDredgeVolume(event_queue, dredgers),
     emptied |-> event_queue = <<>>]

\* the first execution has returned: keep its final state and start afresh
TiesRestart ==
    /\ driver.mode = "ties" /\ fork.leg = 1
    /\ call.pc = "idle" /\ call.how # ""
    /\ fork' = [fork EXCEPT !.leg = 2, !.stage = "second", !.final1 = TiesSnapshot]
    /\ clock' = 0
    /\ event_queue' = <<>>
    /\ entities' = <<>>
    /\ statistics' = NewStatistics
    /\ running' = FALSE
    /\ call' = IdleCall
    /\ dredgers' = <<>>
    /\ segment_manager' = fork.saved
    /\ driver' = [driver EXCEPT !.pc = "setup"]
    /\ UNCHANGED <<rng, alloc>>

\* the second execution has returned
TiesDone ==
    /\ driver.mode = "ties" /\ fork.leg = 2
    /\ call.pc = "idle" /\ call.how # ""
    /\ fork' = [fork EXCEPT !.leg = 3, !.stage = "end", !.final2 = TiesSnapshot]
    /\ UNCHANGED <<clock, event_queue, entities, statistics, running, segment_manager,
                   dredgers, rng, call, driver, alloc>>

NextTies ==
    \/ AddDredger
    \/ TiesRun
    \/ TieDispatch
    \/ TiesEngineStep
    \/ TiesRestart
    \/ TiesDone

SpecTies == InitTies /\ [][NextTies]_vars

\* C32 as stated: without a segment allocator and with fixed per-vessel duration
\* sequences, each vessel's final state (state, hopper_level, total_dredged,
\* cycle_count, state_history) after run(until) does not depend on the order in which
\* equal-time events of different vessels are dispatched; with a shared allocator the
\* total allocated volume is independent of that order.
C32_TieOrderIndifferent ==
    fork.leg = 3 =>
        IF fork.saved.attached
        THEN fork.final1.allocated = fork.final2.allocated
        ELSE fork.final1.vessels = fork.final2.vessels

\* C32 amended: without a segment allocator each vessel's final state after
\* run(until) does not depend on the order of equal-time events; with a shared
\* allocator the total allocated volume is independent of that order when both
\* executions ran until the timeline was empty, or when the vessels have one
\* configuration without spread.
C32_TieOrderIndifferentToExhaustion ==
    fork.leg = 3 =>
        LET IdenticalVessels ==
                \A i \in 1..Len(driver.fleet) :
                    /\ driver.fleet[i].cfg = driver.fleet[1].cfg
                    /\ ZeroSpread(driver.fleet[i].cfg)
        IN  IF fork.saved.attached
            THEN ((fork.final1.emptied /\ fork.final2.emptied) \/ IdenticalVessels)
                    => fork.final1.allocated = fork.final2.allocated
            ELSE fork.final1.vessels = fork.final2.vessels

\* C32 witness: two executions that differ in the order of equal-time events have
\* handed out the whole channel, and a vessel holds a different share in each
C32_Witness ==
    /\ fork.leg = 3 /\ fork.saved.attached
    /\ fork.final1.emptied /\ fork.final2.emptied
    /\ fork.final1.allocated = total_remaining(fork.saved)
    /\ fork.final2.allocated = total_remaining(fork.saved)
    /\ fork.final1.vessels[1].total_dredged # fork.final2.vessels[1].total_dredged

-----------------------------------------------------------------------------
(*              Properties of fleets with repeated type labels              *)

\* the pending completion events that run will hand to the i-th vessel object
PendingDoneFor(i) ==
    {k \in 1..Len(event_queue) :
        /\ event_queue[k].entity_id \in DOMAIN entities
        /\ entities[event_queue[k].entity_id] = i
        /\ event_queue[k].event_type \notin StartMarkers}

\* C33: for every fleet given to the campaign driver, fleets in which two vessels
\* carry the same type label included, each vessel object of the returned collection
\* handles its own initial DredgeStart and has at most one cycle in flight (at most
\* one pending X-Done event) at any time; no vessel object receives the events
\* scheduled for another vessel.
C33_EachVesselRunsItsOwnCycle ==
    driver.mode = "campaign" =>
        \A i \in 1..Len(dredgers) :
            /\ Cardinality(PendingDoneFor(i)) <= 1
            /\ CountEvent(dredgers[i].event_log, "Starting dredging")
                 <= 1 + CountEvent(dredgers[i].event_log, "Arrived back at dredging area")
            /\ driver.pc = "returned" =>
                  CountEvent(dredgers[i].event_log, "Starting dredging") >= 1

====
